---- MODULE Spec2Model ----
(***************************************************************************)
(* Account-security core of the AgriQual backend: registration with OTP,   *)
(* login with lockout, and change-password with reuse prevention.          *)
(*                                                                         *)
(* The repository holds two generations of the auth router and two of the  *)
(* account router.  `build` records which generation a deployment runs:    *)
(*   auth    = "map"  routes/account.js:280-812 (failed_login_by_email     *)
(*                    Map, SignupOtp collection)                           *)
(*   auth    = "doc"  unnamed/part_002 (lockout and pending OTP kept on    *)
(*                    the User document)                                   *)
(*   account = "v1"   routes/account.js:1-278                              *)
(*   account = "v2"   models/PasswordHistory.js:138-447                    *)
(* Time is in milliseconds, as Date.now() gives it.                        *)
(***************************************************************************)
EXTENDS Integers, Sequences, FiniteSets, TLC

VARIABLES
  build,                  \* which generation of each router is deployed
  now,                    \* the clock, ms
  users,                  \* User collection, keyed by canonical email (= _id)
  failed_login_by_email,  \* in-memory Map of the "map" auth router
  signup_otps,            \* SignupOtp collection of the "map" auth router
  histories,              \* PasswordHistory collection, per user, oldest first
  securities,             \* PasswordSecurity collection, per user
  tokens,                 \* subjects for which a bearer token has been issued
  req,                    \* the request handled last
  resp,                   \* the response sent last
  streak,                 \* history: consecutive failed logins per email,
                          \* counted from a clean lockout state
  staged,                 \* history: what the latest register-otp staged
  confirmed,              \* history: the code verify-otp accepted since then
  probe,                  \* history: the last pair of answers to one login
                          \* sent for an account and for an unknown email
  help_rate_store,        \* in-memory Map of the help router's rate limiter
  complaints,             \* Complaint collection: stored complaints per user
  granted,                \* history: requests the limiter allowed per key
                          \* since the window of that key was last started
  served,                 \* history: requests the limiter allowed per user
  calls,                  \* the login and change-password requests that are
                          \* suspended in an await, with what they loaded
  tally,                  \* history: per purpose, the wrong-credential
                          \* requests completed, whether one set a lock, and
                          \* the wrong credentials compared since the last
  documents               \* how many User documents hold each email

vars == <<build, now, users, failed_login_by_email, signup_otps, histories,
          securities, tokens, req, resp, streak, staged, confirmed, probe,
          help_rate_store, complaints, granted, served, calls, tally,
          documents>>

\* what the help router keeps, with the history kept about it
help_vars == <<help_rate_store, complaints, granted, served>>

\* the requests in flight, with the history kept about them
call_vars == <<calls, tally, documents>>

-----------------------------------------------------------------------------
(* Bounds of the model *)

MaxTime == 1000000

MaxStreak == 6

MaxFailedAttempts == 6

\* longest password history kept per account
MaxHistory == 3

\* history entries followed when passwords are rotated
MaxKept == 7

\* the clock of the help router's runs stops this long after the end of the
\* limiter's first window, ms
MaxHelpSlack == 620000

\* most requests counted in one window of the rate limiter
MaxHelpCount == 6

\* most requests the rate limiter lets through for one user
MaxServed == 6

MaxWrong == 6

-----------------------------------------------------------------------------
(* Program constants *)

MAX_FAILED_ATTEMPTS == 5

LOCKOUT_MINUTES == 15

PASSWORD_HISTORY_DEPTH == 5

max_failed_attempts == 5

lockout_minutes == 15

LOGIN_MAX_FAILED_ATTEMPTS == 5

LOGIN_LOCKOUT_MINUTES == 15

OTP_TTL_MS == 10 * 60 * 1000

-----------------------------------------------------------------------------
(* Values *)

NoDate == 0 - 1

E1 == "farmer@example.com"

E2 == "ghost@example.com"

Emails == {E1, E2}

RawEmails == {E1, " Farmer@Example.COM ", E2, "farmer.example.com"}

P1 == "Abcd1234!"

P2 == "Xyzw5678#"

P3 == "Qrst9012$"

P4 == "Uvwx3456%"

P5 == "Mnop7890&"

P6 == "Ghij2468*"

P7 == "Klmn1357@"

\* passwords that meet every rule of the password policies
StrongPasswords == {P1, P2, P3, P4, P5, P6, P7}

PWeak == "abcd1234"

PShort == "Ab1!"

PLocal == "Farmer#2024"

Passwords == StrongPasswords \cup {PWeak, PShort, PLocal}

Codes == {"482913", "271828"}

OtpInputs == Codes \cup {"123"}

NoHash == [alg |-> "none", of |-> ""]

\* bcrypt.hash(s, rounds): a salted one-way hash; only bcrypt_compare relates
\* it to the secret again.
bcrypt_hash(s) == [alg |-> "bcrypt", of |-> s]

\* a value stored as it was typed (legacy accounts)
plain_text(s) == [alg |-> "plain", of |-> s]

\* bcrypt.compare(s, hash): false for a string that is not a bcrypt hash
bcrypt_compare(s, hash) == hash.alg = "bcrypt" /\ hash.of = s

NoUser ==
  [exists |-> FALSE, password |-> NoHash, password_hash |-> NoHash,
   email_verified |-> FALSE, pending_otp_hash |-> NoHash,
   pending_otp_expires_at |-> NoDate, failed_login_attempts |-> 0,
   lock_until |-> NoDate, role |-> ""]

\* what an accepted register-otp staged: the hash of its password, its code,
\* the role of its body, and the code of the pending registration it
\* replaced, "" for none
NoStage == [password_hash |-> NoHash, otp_code |-> "", role |-> "", replaced |-> ""]

NoRecord == [present |-> FALSE, failed_count |-> 0, locked_until |-> NoDate]

NoOtp ==
  [present |-> FALSE, password_hash |-> NoHash, otp_code |-> "",
   otp_expires_at |-> NoDate, role |-> ""]

\* a message handed to the mail transport; NoMail for none
NoMail == [to |-> "", otp |-> ""]

NoSecurity ==
  [present |-> FALSE, failedAttempts |-> 0, lockUntil |-> NoDate,
   lastAttemptAt |-> NoDate]

\* a request that is not in flight
NoCall ==
  [pc |-> "idle", route |-> "none", email |-> "", password |-> "",
   newPassword |-> "", otp |-> "", user |-> NoUser, security |-> NoSecurity,
   otp_record |-> NoOtp, t0 |-> 0, role |-> ""]

Calls == {1, 2}

Purposes == {"login", "change-password"}

\* compared: the wrong credentials compared since the lock was last set;
\* closed: the last of them set the lock
NoTally == [wrong |-> 0, locked |-> FALSE, compared |-> 0, closed |-> FALSE]

\* the request handled last; role is the role value of its body, "" for
\* none; mailed is the code it handed to the mail transport; countBefore,
\* lockBefore and lockedBefore are the
\* lockout state of its purpose as the request found it, dueBefore whether
\* the pending code's expiry instant had come (now >= expiry)
NoReq ==
  [route |-> "none", email |-> "", password |-> "", otp |-> "",
   oldPassword |-> "", newPassword |-> "", countBefore |-> 0,
   lockBefore |-> NoDate, lockedBefore |-> FALSE, dueBefore |-> FALSE,
   ip |-> "", mailFails |-> FALSE, saveFails |-> FALSE, role |-> "",
   mailed |-> NoMail]

\* token is the subject of the signed token and role its role claim, "" when
\* the response carries no token
Response(route, status, message) ==
  [route |-> route, status |-> status, message |-> message,
   retryAfterSeconds |-> NoDate, token |-> "", debug_otp |-> "", role |-> ""]

NoResp == Response("none", 0, "")

\* mutant: the seconds are rounded down
CeilSeconds_down(ms) == ms \div 1000

\* Math.ceil(ms / 1000) for ms > 0
CeilSeconds(ms) == (ms + 999) \div 1000

\* Math.round(ms / 1000) for ms > 0
RoundSeconds(ms) == (ms + 500) \div 1000

-----------------------------------------------------------------------------
(* Input validation shared by the routers.  The regular expressions are    *)
(* tabulated over the finite input universe.                               *)

\* trim().toLowerCase()
normalize_email(email) ==
  IF email = " Farmer@Example.COM " THEN E1 ELSE email

\* /^[^\s@]+@[^\s@]+\.[^\s@]+$/
validate_email_format(email) == email \in {E1, E2}

PwLength(p) ==
  CASE p = "" -> 0
    [] p = PShort -> 4
    [] p = PWeak -> 8
    [] p = PLocal -> 11
    [] OTHER -> 9

has_uppercase(p) == p \in StrongPasswords \cup {PShort, PLocal}

has_lowercase(p) == p \in StrongPasswords \cup {PWeak, PShort, PLocal}

has_digit(p) == p \in StrongPasswords \cup {PWeak, PShort, PLocal}

has_symbol(p) == p \in StrongPasswords \cup {PShort, PLocal}

has_space(p) == FALSE

\* returns the error message, "" for null
validate_password_strength(password) ==
  IF PwLength(password) < 8 THEN "Password must be at least 8 characters long"
  ELSE IF ~has_uppercase(password)
    THEN "Password must contain at least one uppercase letter"
  ELSE IF ~has_lowercase(password)
    THEN "Password must contain at least one lowercase letter"
  ELSE IF ~has_digit(password) THEN "Password must contain at least one number"
  ELSE IF ~has_symbol(password)
    THEN "Password must contain at least one special character"
  ELSE ""

-----------------------------------------------------------------------------
(* Auth router, "map" generation: routes/account.js:280-812                *)

get_failed_record(F, email) ==
  LET key == normalize_email(email)
  IN IF F[key].present THEN F
     ELSE [F EXCEPT ![key] =
             [present |-> TRUE, failed_count |-> 0, locked_until |-> NoDate]]

\* mutant: the lock still holds at the instant locked_until
get_lockout_seconds_remaining_inclusive(record, t) ==
  IF ~record.present \/ record.locked_until = NoDate THEN 0
  ELSE IF record.locked_until - t < 0 THEN 0
  ELSE IF record.locked_until = t THEN 1
  ELSE CeilSeconds(record.locked_until - t)

get_lockout_seconds_remaining(record, t) ==
  IF ~record.present \/ record.locked_until = NoDate THEN 0
  ELSE IF record.locked_until - t <= 0 THEN 0
  ELSE CeilSeconds(record.locked_until - t)

\* mutant: the lock check never reports a lock
is_email_locked_never(F, t, email) ==
  [is_locked |-> FALSE, retry_after_seconds |-> 0,
   failed |-> get_failed_record(F, email)]

\* [is_locked, retry_after_seconds] and the Map after get_failed_record
is_email_locked(F, t, email) ==
  LET F1 == get_failed_record(F, email)
      seconds_remaining ==
        get_lockout_seconds_remaining(F1[normalize_email(email)], t)
  IN [is_locked |-> seconds_remaining > 0,
      retry_after_seconds |-> seconds_remaining, failed |-> F1]

\* mutant: the lock is set one failure late
register_failed_login_late(F, t, email) ==
  LET key == normalize_email(email)
      F1 == get_failed_record(F, email)
      record == F1[key]
      counted == [record EXCEPT !.failed_count = @ + 1]
      locked == [counted EXCEPT !.locked_until = t + lockout_minutes * 60 * 1000,
                                !.failed_count = 0]
  IN IF get_lockout_seconds_remaining(record, t) > 0
       THEN [is_locked |-> TRUE,
             retry_after_seconds |-> get_lockout_seconds_remaining(record, t),
             failed |-> F1]
     ELSE IF counted.failed_count > max_failed_attempts
       THEN [is_locked |-> TRUE,
             retry_after_seconds |-> get_lockout_seconds_remaining(locked, t),
             failed |-> [F1 EXCEPT ![key] = locked]]
     ELSE [is_locked |-> FALSE, retry_after_seconds |-> 0,
           failed |-> [F1 EXCEPT ![key] = counted]]

register_failed_login(F, t, email) ==
  LET key == normalize_email(email)
      F1 == get_failed_record(F, email)
      record == F1[key]
      counted == [record EXCEPT !.failed_count = @ + 1]
      locked == [counted EXCEPT !.locked_until = t + lockout_minutes * 60 * 1000,
                                !.failed_count = 0]
  IN IF get_lockout_seconds_remaining(record, t) > 0
       THEN [is_locked |-> TRUE,
             retry_after_seconds |-> get_lockout_seconds_remaining(record, t),
             failed |-> F1]
     ELSE IF counted.failed_count >= max_failed_attempts
       THEN [is_locked |-> TRUE,
             retry_after_seconds |-> get_lockout_seconds_remaining(locked, t),
             failed |-> [F1 EXCEPT ![key] = locked]]
     ELSE [is_locked |-> FALSE, retry_after_seconds |-> 0,
           failed |-> [F1 EXCEPT ![key] = counted]]

\* mutant: the record is kept
clear_failed_login_kept(F, email) == F

clear_failed_login(F, email) ==
  [F EXCEPT ![normalize_email(email)] = NoRecord]

\* mutant: a legacy match is accepted and the stored value left as it is
login_compare_unhashed(user, password) ==
  LET stored_hash ==
        IF user.exists /\ user.password_hash.alg # "none" THEN user.password_hash
        ELSE IF user.exists /\ user.password.alg # "none" THEN user.password
        ELSE NoHash
  IN IF ~user.exists \/ stored_hash.alg = "none"
       THEN [password_matches |-> FALSE, user |-> user]
     ELSE IF stored_hash.alg = "bcrypt"
       THEN [password_matches |-> bcrypt_compare(password, stored_hash),
             user |-> user]
     ELSE [password_matches |-> stored_hash.of = password, user |-> user]

\* lines 721-749: which stored value is compared, and how; the user after
\* the legacy re-hash
login_compare(user, password) ==
  LET stored_hash ==
        IF user.exists /\ user.password_hash.alg # "none" THEN user.password_hash
        ELSE IF user.exists /\ user.password.alg # "none" THEN user.password
        ELSE NoHash
      looks_like_bcrypt == stored_hash.alg = "bcrypt"
  IN IF ~user.exists \/ stored_hash.alg = "none"
       THEN [password_matches |-> FALSE, user |-> user]
     ELSE IF looks_like_bcrypt
       THEN [password_matches |-> bcrypt_compare(password, stored_hash),
             user |-> user]
     ELSE IF stored_hash.of = password
       THEN [password_matches |-> TRUE,
             user |-> [user EXCEPT !.password_hash = bcrypt_hash(password),
                                   !.password = NoHash]]
     ELSE [password_matches |-> FALSE, user |-> user]

LockedResponse(message, seconds) ==
  [Response("login", 429, message) EXCEPT !.retryAfterSeconds = seconds]

\* the role claim create_jwt_for_user signs
create_jwt_for_user(user) == user.role

\* POST /login from line 721 on, where the lock check has been passed: the
\* user is looked up, the password compared and the outcome recorded
\* save_fails: user.save() of the legacy re-hash throws
post_login_after_check_when(U, F, t, email, password, save_fails) ==
  LET cmp == login_compare(U[email], password)
      U1 == [U EXCEPT ![email] = cmp.user]
      lock_after_failure == register_failed_login(F, t, email)
  IN IF save_fails /\ cmp.user # U[email]
       THEN [users |-> U, failed |-> F,
             resp |-> Response("login", 500, "Login failed. Please try again.")]
     ELSE IF ~U[email].exists \/ ~cmp.password_matches
       THEN [users |-> U1, failed |-> lock_after_failure.failed,
             resp |-> IF lock_after_failure.is_locked
                        THEN LockedResponse(
                          "Too many failed login attempts. Please try again later.",
                          lock_after_failure.retry_after_seconds)
                        ELSE Response("login", 401, "Invalid email or password")]
     ELSE [users |-> U1, failed |-> clear_failed_login(F, email),
           resp |-> [Response("login", 200, "")
                       EXCEPT !.token = email,
                              !.role = create_jwt_for_user(U1[email])]]

post_login_after_check(U, F, t, email, password) ==
  post_login_after_check_when(U, F, t, email, password, FALSE)

\* POST /login; save_fails: user.save() throws
post_login_when(U, F, t, raw_email, password, save_fails) ==
  LET email == normalize_email(raw_email)
      lock_status == is_email_locked(F, t, email)
  IN IF ~validate_email_format(email) \/ PwLength(password) = 0
       THEN [users |-> U, failed |-> F,
             resp |-> Response("login", 400, "Invalid email or password")]
     ELSE IF lock_status.is_locked
       THEN [users |-> U, failed |-> lock_status.failed,
             resp |-> LockedResponse(
                        "Too many failed login attempts. Please try again later.",
                        lock_status.retry_after_seconds)]
     ELSE post_login_after_check_when(U, lock_status.failed, t, email, password,
                                      save_fails)

\* POST /login; the result holds the collections after the request
post_login(U, F, t, raw_email, password) ==
  post_login_when(U, F, t, raw_email, password, FALSE)

\* POST /register-otp; otp_code is the code Math.random() draws
\* account.js:515
allowed_roles == {"farmer", "inspector"}

\* account.js:516
register_role(raw_role) ==
  IF raw_role \in allowed_roles THEN raw_role ELSE "farmer"

\* mutant: the pending record of an email is written once
upsert_otp_once(S, email, otp_payload) ==
  IF S[email].present THEN S ELSE [S EXCEPT ![email] = otp_payload]

\* OtpModel.findOneAndUpdate({ email }, otp_payload, { upsert: true })
upsert_otp(S, email, otp_payload) == [S EXCEPT ![email] = otp_payload]

\* POST /register-otp; otp_code is the code Math.random() draws.  The route
\* has no mail transport: mail is what it hands over for delivery.
post_register_otp(U, S, t, raw_email, password, otp_code, raw_role) ==
  LET email == normalize_email(raw_email)
      role == register_role(raw_role)
      password_error == validate_password_strength(password)
  IN IF ~validate_email_format(email)
       THEN [otps |-> S, mail |-> NoMail,
             resp |-> Response("register-otp", 400,
                               "A valid email address is required")]
     ELSE IF password_error # ""
       THEN [otps |-> S, mail |-> NoMail,
             resp |-> Response("register-otp", 400, password_error)]
     ELSE IF U[email].exists
       THEN [otps |-> S, mail |-> NoMail,
             resp |-> Response("register-otp", 400,
                               "An account with this email already exists")]
     ELSE [mail |-> NoMail,
           otps |-> upsert_otp(S, email,
                       [present |-> TRUE, password_hash |-> bcrypt_hash(password),
                        otp_code |-> otp_code,
                        otp_expires_at |-> t + OTP_TTL_MS, role |-> role]),
           resp |-> Response("register-otp", 200,
                             "Verification code sent to your email address")]

OtpLength(otp) == IF otp = "123" THEN 3 ELSE 6

\* mutant: the pending record outlives its confirmation
delete_otp_record_kept(S, email) == S

\* OtpModel.deleteOne({ _id: otp_record._id })
delete_otp_record(S, email) == [S EXCEPT ![email] = NoOtp]

\* the expiry test of line 635
otp_is_expired(otp_record, t) ==
  otp_record.otp_expires_at = NoDate \/ otp_record.otp_expires_at < t

\* mutant: a wrong code spends the pending record
reject_otp_spent(S, email) == [S EXCEPT ![email] = NoOtp]

\* lines 641-644: a wrong code is answered and nothing is written
reject_otp(S, email) == S

\* POST /verify-otp
post_verify_otp(U, S, t, raw_email, otp_input) ==
  LET email == normalize_email(raw_email)
      otp_record == S[email]
      user == IF ~U[email].exists
                THEN [NoUser EXCEPT !.exists = TRUE,
                                    !.role = otp_record.role,
                                    !.password_hash = otp_record.password_hash]
                ELSE [U[email] EXCEPT !.role = otp_record.role,
                                      !.password_hash = otp_record.password_hash]
  IN IF ~validate_email_format(email)
       THEN [users |-> U, otps |-> S,
             resp |-> Response("verify-otp", 400,
                               "Invalid verification code or email")]
     ELSE IF OtpLength(otp_input) < 4 \/ OtpLength(otp_input) > 10
       THEN [users |-> U, otps |-> S,
             resp |-> Response("verify-otp", 400,
                               "Invalid verification code or email")]
     ELSE IF ~otp_record.present
       THEN [users |-> U, otps |-> S,
             resp |-> Response("verify-otp", 400,
                               "Invalid or expired verification code")]
     ELSE IF otp_is_expired(otp_record, t)
       THEN [users |-> U, otps |-> [S EXCEPT ![email] = NoOtp],
             resp |-> Response("verify-otp", 400,
                               "Invalid or expired verification code")]
     ELSE IF otp_record.otp_code # otp_input
       THEN [users |-> U, otps |-> reject_otp(S, email),
             resp |-> Response("verify-otp", 400,
                               "Invalid or expired verification code")]
     ELSE [users |-> [U EXCEPT ![email] = user],
           otps |-> delete_otp_record(S, email),
           resp |-> [Response("verify-otp", 200, "")
                       EXCEPT !.token = email,
                              !.role = create_jwt_for_user(user)]]

-----------------------------------------------------------------------------
(* Auth router, "doc" generation: unnamed/part_002                         *)

\* String(email).trim().toLowerCase()
normalizeEmail(email) ==
  IF email = " Farmer@Example.COM " THEN E1 ELSE email

validateEmail(email) == normalizeEmail(email) \in {E1, E2}

has_letter(p) == p \in StrongPasswords \cup {PWeak, PShort, PLocal}

\* returns the error message, "" for null
validatePasswordStrength(password) ==
  IF PwLength(password) < 8 THEN "Password must be at least 8 characters long"
  ELSE IF ~has_letter(password) \/ ~has_digit(password)
    THEN "Password must contain at least one letter and one number"
  ELSE ""

getLockoutSeconds(lockUntil, t) ==
  IF lockUntil = NoDate THEN 0
  ELSE IF lockUntil - t <= 0 THEN 0
  ELSE RoundSeconds(lockUntil - t)

\* sendOtpEmail: what is handed to mailTransporter.sendMail; smtp is "none"
\* without a transporter, "fails" when sendMail throws, which is caught
sendOtpEmail(email, otp, smtp) ==
  IF smtp = "none" THEN NoMail ELSE [to |-> email, otp |-> otp]

\* the role claim createTokenForUser signs
createTokenForUser(user) == IF user.role = "" THEN "farmer" ELSE user.role

\* POST /register-otp; otp is the code Math.random() draws
\* node_env is process.env.NODE_ENV, role the role of the body, "" for none,
\* smtp the state of the mail transport
postRegisterOtp(U, t, email, password, otp, node_env, role, smtp) ==
  LET normalizedEmail == normalizeEmail(email)
      passwordError == validatePasswordStrength(password)
      user == U[normalizedEmail]
      stagedUser ==
        [(IF user.exists THEN user ELSE [NoUser EXCEPT !.exists = TRUE])
           EXCEPT !.role = IF role # "" THEN role
                           ELSE IF user.exists /\ user.role # "" THEN user.role
                           ELSE "farmer",
                  !.password_hash = bcrypt_hash(password),
                  !.email_verified = FALSE,
                  !.pending_otp_hash = bcrypt_hash(otp),
                  !.pending_otp_expires_at = t + OTP_TTL_MS,
                  !.failed_login_attempts = 0,
                  !.lock_until = NoDate]
  IN IF ~validateEmail(normalizedEmail)
       THEN [users |-> U, mail |-> NoMail,
             resp |-> Response("register-otp", 400, "Valid email is required")]
     ELSE IF passwordError # ""
       THEN [users |-> U, mail |-> NoMail, resp |-> Response("register-otp", 400, passwordError)]
     ELSE IF user.exists /\ user.email_verified
       THEN [users |-> U, mail |-> NoMail,
             resp |-> Response("register-otp", 400,
                               "An account with this email already exists")]
     ELSE [users |-> [U EXCEPT ![normalizedEmail] = stagedUser],
           mail |-> sendOtpEmail(normalizedEmail, otp, smtp),
           resp |-> [Response("register-otp", 200,
                              "Verification code has been sent to your email")
                       EXCEPT !.debug_otp = IF node_env # "production"
                                              THEN otp ELSE ""]]

\* the expiry test of line 212
otpHasExpired(user, t) == user.pending_otp_expires_at <= t

\* POST /verify-otp
postVerifyOtp(U, t, email, otp) ==
  LET normalizedEmail == normalizeEmail(email)
      user == U[normalizedEmail]
      verified ==
        [user EXCEPT !.email_verified = TRUE,
                     !.pending_otp_hash = NoHash,
                     !.pending_otp_expires_at = NoDate,
                     !.failed_login_attempts = 0,
                     !.lock_until = NoDate]
  IN IF ~validateEmail(normalizedEmail)
       THEN [users |-> U,
             resp |-> Response("verify-otp", 400, "Valid email is required")]
     ELSE IF OtpLength(otp) < 4
       THEN [users |-> U,
             resp |-> Response("verify-otp", 400, "OTP code is required")]
     ELSE IF ~user.exists \/ user.pending_otp_hash.alg = "none"
             \/ user.pending_otp_expires_at = NoDate
       THEN [users |-> U,
             resp |-> Response("verify-otp", 400,
                               "Invalid or expired verification code")]
     ELSE IF otpHasExpired(user, t)
       THEN [users |-> U,
             resp |-> Response("verify-otp", 400, "Verification code has expired")]
     ELSE IF ~bcrypt_compare(otp, user.pending_otp_hash)
       THEN [users |-> U,
             resp |-> Response("verify-otp", 400, "Invalid verification code")]
     ELSE [users |-> [U EXCEPT ![normalizedEmail] = verified],
           resp |-> [Response("verify-otp", 200, "")
                       EXCEPT !.token = normalizedEmail,
                              !.role = createTokenForUser(verified)]]

\* lines 294-300: the stored value that is compared
storedHashOf(user) ==
  IF user.password_hash.alg # "none" THEN user.password_hash ELSE user.password

\* mutant: the catch of the route answers with a token
loginError_token(normalizedEmail) ==
  [Response("login", 200, "") EXCEPT !.token = normalizedEmail]

\* the catch of the login route, lines 355-359
loginError(normalizedEmail) == Response("login", 500, "Login failed")

\* POST /login; save_fails: user.save() throws
postLoginWhen(U, t, email, password, save_fails) ==
  LET normalizedEmail == normalizeEmail(email)
      user == U[normalizedEmail]
      storedHash == storedHashOf(user)
      isMatch == bcrypt_compare(password, storedHash)
      counted == [user EXCEPT !.failed_login_attempts = @ + 1]
      failed ==
        IF counted.failed_login_attempts >= LOGIN_MAX_FAILED_ATTEMPTS
          THEN [counted EXCEPT
                  !.lock_until = t + LOGIN_LOCKOUT_MINUTES * 60 * 1000]
          ELSE counted
      lockedMessage ==
        "Too many failed login attempts. Your account is temporarily locked."
  IN IF ~validateEmail(normalizedEmail)
       THEN [users |-> U,
             resp |-> Response("login", 400, "Valid email is required")]
     ELSE IF PwLength(password) = 0
       THEN [users |-> U, resp |-> Response("login", 400, "Password is required")]
     ELSE IF ~user.exists
       THEN [users |-> U,
             resp |-> Response("login", 401, "Invalid email or password")]
     ELSE IF user.lock_until # NoDate /\ user.lock_until > t
       THEN [users |-> U,
             resp |-> LockedResponse(lockedMessage,
                                     getLockoutSeconds(user.lock_until, t))]
     ELSE IF storedHash.alg = "none"
       THEN [users |-> U,
             resp |-> Response("login", 401, "Invalid email or password")]
     ELSE IF save_fails
       THEN [users |-> U, resp |-> loginError(normalizedEmail)]
     ELSE IF ~isMatch
       THEN [users |-> [U EXCEPT ![normalizedEmail] = failed],
             resp |-> IF failed.lock_until # NoDate /\ failed.lock_until > t
                        THEN LockedResponse(lockedMessage,
                               getLockoutSeconds(failed.lock_until, t))
                        ELSE Response("login", 401, "Invalid email or password")]
     ELSE [users |-> [U EXCEPT ![normalizedEmail] =
                        [user EXCEPT !.failed_login_attempts = 0,
                                     !.lock_until = NoDate]],
           resp |-> [Response("login", 200, "")
                       EXCEPT !.token = normalizedEmail,
                              !.role = createTokenForUser(user)]]

postLogin(U, t, email, password) == postLoginWhen(U, t, email, password, FALSE)

-----------------------------------------------------------------------------
(* Account router: routes/account.js:1-278 ("v1") and                      *)
(* models/PasswordHistory.js:138-447 ("v2")                                *)

\* the local part of the account's email occurs in the lowercased password
contains_email_username(password, email) == password = PLocal /\ email = E1

\* ['password', '12345678', 'qwerty', 'letmein', 'agriqual']
very_common(password) == password \in {}

\* returns the error message, "" for null
validate_new_password(password, email) ==
  LET categories ==
        (IF has_uppercase(password) THEN 1 ELSE 0)
        + (IF has_lowercase(password) THEN 1 ELSE 0)
        + (IF has_digit(password) THEN 1 ELSE 0)
        + (IF has_symbol(password) THEN 1 ELSE 0)
  IN IF PwLength(password) = 0 THEN "New password is required"
     ELSE IF PwLength(password) < 8
       THEN "New password must be at least 8 characters long"
     ELSE IF has_space(password) THEN "New password cannot contain spaces"
     ELSE IF categories < 3
       THEN "New password must include at least three of: uppercase letters, lowercase letters, numbers, and symbols"
     ELSE IF very_common(password)
       THEN "New password is too common. Choose something harder to guess"
     ELSE IF contains_email_username(password, email)
       THEN "New password must not contain your email username"
     ELSE ""

\* mutant: the policy is checked before old and new are compared
submitted_passwords_error_policy_first(old_password, new_password, email) ==
  IF validate_new_password(new_password, email) # ""
    THEN validate_new_password(new_password, email)
  ELSE IF old_password = new_password
    THEN "New password must be different from old password"
  ELSE ""

\* the two checks on the submitted passwords, in the order the route makes
\* them; returns the error message, "" for none
submitted_passwords_error(old_password, new_password, email) ==
  IF old_password = new_password
    THEN "New password must be different from old password"
  ELSE validate_new_password(new_password, email)

\* mutant: every request starts a new security document
get_or_create_security_anew(Sec, user_id) ==
  [Sec EXCEPT ![user_id] = [NoSecurity EXCEPT !.present = TRUE]]

get_or_create_security(Sec, user_id) ==
  IF Sec[user_id].present THEN Sec
  ELSE [Sec EXCEPT ![user_id] = [NoSecurity EXCEPT !.present = TRUE]]

check_lockout(security, t) ==
  IF security.lockUntil # NoDate /\ security.lockUntil > t
    THEN [locked |-> TRUE,
          retryAfterSeconds |-> CeilSeconds(security.lockUntil - t)]
    ELSE [locked |-> FALSE, retryAfterSeconds |-> 0]

handle_failed_attempt(security, t) ==
  LET counted == [security EXCEPT !.failedAttempts = @ + 1,
                                  !.lastAttemptAt = t]
  IN IF counted.failedAttempts >= MAX_FAILED_ATTEMPTS
       THEN [counted EXCEPT !.lockUntil = t + LOCKOUT_MINUTES * 60 * 1000]
       ELSE counted

\* the entries find().sort({createdAt: -1}).limit(depth) returns: the last
\* `depth` of the sequence, which is kept in insertion (= createdAt) order
recent_history(history, depth) ==
  LET n == Len(history)
  IN IF n <= depth THEN history ELSE SubSeq(history, n - depth + 1, n)

\* mutant: the history is never consulted
check_password_history_skipped(history, new_password) == FALSE

check_password_history(history, new_password) ==
  \E i \in DOMAIN recent_history(history, PASSWORD_HISTORY_DEPTH) :
    bcrypt_compare(new_password,
                   recent_history(history, PASSWORD_HISTORY_DEPTH)[i].passwordHash)

get_current_password_hash(user) ==
  IF user.password_hash.alg # "none" THEN user.password_hash ELSE user.password

\* mutant: the rotation also resets the login lockout fields of the user
update_password_unlocking(user, history, new_password, previous_hash, t) ==
  [user |-> [user EXCEPT !.password_hash = bcrypt_hash(new_password),
                         !.password = NoHash,
                         !.failed_login_attempts = 0,
                         !.lock_until = NoDate],
   history |-> IF previous_hash.alg # "none"
                 THEN Append(history,
                             [passwordHash |-> previous_hash, createdAt |-> t])
                 ELSE history]

\* "v2": [user, history] after the rotation
update_password(user, history, new_password, previous_hash, t) ==
  [user |-> [user EXCEPT !.password_hash = bcrypt_hash(new_password),
                         !.password = NoHash],
   history |-> IF previous_hash.alg # "none"
                 THEN Append(history,
                             [passwordHash |-> previous_hash, createdAt |-> t])
                 ELSE history]

\* user.email of the user a token subject resolves to
user_email(sub) == sub

CpResponse(status, message) == Response("change-password", status, message)

CpLocked(seconds) ==
  [CpResponse(429,
     "Too many incorrect password attempts. Please try again later.")
     EXCEPT !.retryAfterSeconds = seconds]

\* mutant: what send_password_change_email throws reaches the route's catch
notify_password_change_uncaught(done, mail_fails) ==
  IF mail_fails THEN CpResponse(500, "Server error") ELSE done

\* try { await send_password_change_email(user.email) } catch { log }: the
\* response that was due, whether or not the send throws
notify_password_change(done, mail_fails) == done

\* POST /change-password, "v2"; sub is the subject of the bearer token, ""
\* when the Authorization header carries no valid token
change_password(U, H, Sec, t, sub, old_password, new_password, mail_fails) ==
  LET user == U[sub]
      Sec1 == get_or_create_security(Sec, sub)
      security == Sec1[sub]
      lockout_check == check_lockout(security, t)
      policy_error ==
        submitted_passwords_error(old_password, new_password, user_email(sub))
      current_hash == get_current_password_hash(user)
      old_matches == bcrypt_compare(old_password, current_hash)
      cleared == [security EXCEPT !.failedAttempts = 0, !.lockUntil = NoDate,
                                  !.lastAttemptAt = t]
      Sec2 == [Sec1 EXCEPT ![sub] = cleared]
      rotated == update_password(user, H[sub], new_password, current_hash, t)
      same(r) == [users |-> U, histories |-> H, securities |-> Sec, resp |-> r]
  IN IF sub = "" THEN same(CpResponse(401, "Unauthorized"))
     ELSE IF old_password = "" \/ new_password = ""
       THEN same(CpResponse(400, "Old password and new password are required"))
     ELSE IF ~user.exists THEN same(CpResponse(404, "User not found"))
     ELSE IF lockout_check.locked
       THEN [same(CpLocked(lockout_check.retryAfterSeconds))
               EXCEPT !.securities = Sec1]
     ELSE IF policy_error # ""
       THEN [same(CpResponse(400, policy_error)) EXCEPT !.securities = Sec1]
     ELSE IF current_hash.alg = "none"
       THEN [same(CpResponse(400,
                   "This account does not have a password set yet. Please use \"Forgot password\" / reset flow."))
               EXCEPT !.securities = Sec1]
     ELSE IF ~old_matches
       THEN [same(CpResponse(400, "Old password is incorrect"))
               EXCEPT !.securities =
                        [Sec1 EXCEPT ![sub] = handle_failed_attempt(security, t)]]
     ELSE IF bcrypt_compare(new_password, current_hash)
       THEN [same(CpResponse(400,
                   "New password must be different from your current password"))
               EXCEPT !.securities = Sec2]
     ELSE IF check_password_history(H[sub], new_password)
       THEN [same(CpResponse(400,
                   "New password cannot reuse one of your recent passwords"))
               EXCEPT !.securities = Sec2]
     ELSE [users |-> [U EXCEPT ![sub] = rotated.user],
           histories |-> [H EXCEPT ![sub] = rotated.history],
           securities |-> Sec2,
           resp |-> notify_password_change(
                      CpResponse(200, "Password changed successfully"),
                      mail_fails)]

\* User.prototype.comparePassword of the User model the "v1" router was
\* written against: the candidate is compared with the hash kept in `password`
comparePassword(user, candidate) == bcrypt_compare(candidate, user.password)

\* the same model's save(): a modified `password` is stored hashed
save_password(user, new_password) ==
  [user EXCEPT !.password = bcrypt_hash(new_password)]

\* "v1": [user, history] after the rotation
update_password_v1(user, history, new_password, current_hash, t) ==
  [user |-> save_password(user, new_password),
   history |-> Append(history,
                      [passwordHash |-> current_hash, createdAt |-> t])]

\* POST /change-password, "v1".  bcrypt.compare and comparePassword throw on
\* a missing hash, which the route answers with 500.
change_password_v1(U, H, Sec, t, sub, old_password, new_password, mail_fails) ==
  LET user == U[sub]
      Sec1 == get_or_create_security(Sec, sub)
      security == Sec1[sub]
      lockout_check == check_lockout(security, t)
      policy_error ==
        submitted_passwords_error(old_password, new_password, user_email(sub))
      old_matches == comparePassword(user, old_password)
      cleared == [security EXCEPT !.failedAttempts = 0, !.lockUntil = NoDate,
                                  !.lastAttemptAt = t]
      Sec2 == [Sec1 EXCEPT ![sub] = cleared]
      current_hash == user.password
      rotated == update_password_v1(user, H[sub], new_password, current_hash, t)
      same(r) == [users |-> U, histories |-> H, securities |-> Sec, resp |-> r]
  IN IF sub = "" THEN same(CpResponse(401, "Unauthorized"))
     ELSE IF old_password = "" \/ new_password = ""
       THEN same(CpResponse(400, "Old password and new password are required"))
     ELSE IF ~user.exists THEN same(CpResponse(404, "User not found"))
     ELSE IF lockout_check.locked
       THEN [same(CpLocked(lockout_check.retryAfterSeconds))
               EXCEPT !.securities = Sec1]
     ELSE IF policy_error # ""
       THEN [same(CpResponse(400, policy_error)) EXCEPT !.securities = Sec1]
     ELSE IF user.password.alg = "none"
       THEN [same(CpResponse(500, "Server error")) EXCEPT !.securities = Sec1]
     ELSE IF ~old_matches
       THEN [same(CpResponse(400, "Old password is incorrect"))
               EXCEPT !.securities =
                        [Sec1 EXCEPT ![sub] = handle_failed_attempt(security, t)]]
     ELSE IF bcrypt_compare(new_password, current_hash)
       THEN [same(CpResponse(400,
                   "New password must be different from your current password"))
               EXCEPT !.securities = Sec2]
     ELSE IF check_password_history(H[sub], new_password)
       THEN [same(CpResponse(400,
                   "New password cannot reuse one of your recent passwords"))
               EXCEPT !.securities = Sec2]
     ELSE [users |-> [U EXCEPT ![sub] = rotated.user],
           histories |-> [H EXCEPT ![sub] = rotated.history],
           securities |-> Sec2,
           resp |-> notify_password_change(
                      CpResponse(200, "Password changed successfully"),
                      mail_fails)]

-----------------------------------------------------------------------------
(* The help router: POST /complaints behind an in-memory rate limiter.  Four
   generations are in the repository: "per_ip" and "per_user" count in a
   window of HELP_WINDOW_SECONDS, "block_a" and "block_b" count in a shorter
   window and block the key once the limit is passed. *)

HELP_WINDOW_SECONDS == 3600

HELP_MAX_PER_WINDOW == 5

RATE_LIMIT_MAX_REQUESTS == 5

RATE_LIMIT_WINDOW_MS == 10 * 60 * 1000

RATE_LIMIT_BLOCK_MS == 15 * 60 * 1000

HELP_WINDOW_MS == 5 * 60 * 1000

HELP_MAX_REQUESTS == 5

HELP_BLOCK_MS == 15 * 60 * 1000

\* client addresses
IPs == {"10.0.0.1", "10.0.0.2"}

\* keys of the limiter's Map: `${user_id}|${ip}`, or String(user_id) alone
HelpKeys == (Emails \X IPs) \cup {<<e>> : e \in Emails}

NoEntry == [present |-> FALSE, count |-> 0, windowStart |-> 0, blockedUntil |-> 0]

\* claims of a verified bearer token; "" for a claim it does not carry
NoPayload == [sub |-> "", userId |-> "", email |-> ""]

\* what createTokenForUser / create_jwt_for_user sign
SubPayload(e) == [NoPayload EXCEPT !.sub = e]

\* the claims the help routers look for first
IdEmailPayload(e) == [NoPayload EXCEPT !.userId = e, !.email = e]

\* request bodies: with subject and message, or with neither
Bodies == {"ok", "empty"}

\* Math.max(1, Math.ceil(ms / 1000))
AtLeastOneSecond(ms) == IF ms <= 0 THEN 1 ELSE CeilSeconds(ms)

\* mutant: the count is compared after the limit has been passed by one more
fixed_window_hit_late(S, t, key, window_ms) ==
  LET found == IF S[key].present THEN S[key]
               ELSE [NoEntry EXCEPT !.present = TRUE, !.windowStart = t]
      fresh == IF t - found.windowStart >= window_ms
                 THEN [found EXCEPT !.count = 0, !.windowStart = t]
                 ELSE found
      entry == [fresh EXCEPT !.count = @ + 1]
  IN [store |-> [S EXCEPT ![key] = entry],
      allowed |-> entry.count <= HELP_MAX_PER_WINDOW + 1,
      retryAfterSeconds |->
        AtLeastOneSecond(window_ms - (t - entry.windowStart))]

\* the body of both check_help_rate_limit generations, for the key each builds
fixed_window_hit(S, t, key, window_ms) ==
  LET found == IF S[key].present THEN S[key]
               ELSE [NoEntry EXCEPT !.present = TRUE, !.windowStart = t]
      fresh == IF t - found.windowStart >= window_ms
                 THEN [found EXCEPT !.count = 0, !.windowStart = t]
                 ELSE found
      entry == [fresh EXCEPT !.count = @ + 1]
  IN [store |-> [S EXCEPT ![key] = entry],
      allowed |-> entry.count <= HELP_MAX_PER_WINDOW,
      retryAfterSeconds |->
        AtLeastOneSecond(window_ms - (t - entry.windowStart))]

\* "per_ip": key = `${user_id}|${client_ip}`
check_help_rate_limit_per_ip(S, t, user_id, client_ip) ==
  fixed_window_hit(S, t, <<user_id, client_ip>>, HELP_WINDOW_SECONDS * 1000)

\* "per_user": key = String(user_id)
check_help_rate_limit(S, t, user_id) ==
  fixed_window_hit(S, t, <<user_id>>, HELP_WINDOW_SECONDS * 1000)

\* the body of both check_rate_limit generations; a request refused during a
\* block writes nothing
blocking_hit(S, t, key, window_ms, max_requests, block_ms, floor) ==
  LET found == IF S[key].present THEN S[key]
               ELSE [NoEntry EXCEPT !.present = TRUE, !.windowStart = t]
      fresh == IF t - found.windowStart > window_ms
                 THEN [found EXCEPT !.count = 0, !.windowStart = t]
                 ELSE found
      entry == [fresh EXCEPT !.count = @ + 1]
  IN IF found.blockedUntil # 0 /\ t < found.blockedUntil
       THEN [store |-> S, allowed |-> FALSE,
             retryAfterSeconds |->
               IF floor THEN AtLeastOneSecond(found.blockedUntil - t)
               ELSE CeilSeconds(found.blockedUntil - t)]
     ELSE IF entry.count > max_requests
       THEN [store |-> [S EXCEPT ![key] =
                          [entry EXCEPT !.blockedUntil = t + block_ms]],
             allowed |-> FALSE,
             retryAfterSeconds |-> CeilSeconds(block_ms)]
     ELSE [store |-> [S EXCEPT ![key] = entry], allowed |-> TRUE,
           retryAfterSeconds |-> 0]

\* "block_a": key = `${userId}|${ip}`
check_rate_limit(S, t, user_id, ip) ==
  blocking_hit(S, t, <<user_id, ip>>, RATE_LIMIT_WINDOW_MS,
               RATE_LIMIT_MAX_REQUESTS, RATE_LIMIT_BLOCK_MS, TRUE)

\* "block_b": key = get_rate_key(request, user_id)
check_rate_limit_by_key(S, t, ip, user_id) ==
  blocking_hit(S, t, <<user_id, ip>>, HELP_WINDOW_MS, HELP_MAX_REQUESTS,
               HELP_BLOCK_MS, FALSE)

HelpResponse(status, message) == Response("complaints", status, message)

HelpLimited(message, seconds) ==
  [HelpResponse(429, message) EXCEPT !.retryAfterSeconds = seconds]

\* new Complaint({...}).save()
save_complaint(C, user_id) == [C EXCEPT ![user_id] = @ + 1]

\* the id and the email each generation takes from the token: "" if it finds
\* none.  U is the User collection, which two of them consult.
help_identity(generation, U, payload) ==
  LET by_sub == IF payload.userId # "" THEN payload.userId ELSE payload.sub
      looked_up(id) == IF id \in Emails /\ U[id].exists THEN id ELSE ""
  IN IF generation = "per_ip"
       THEN [user_id |-> by_sub, email |-> looked_up(by_sub)]
     ELSE IF generation = "block_b"
       THEN [user_id |-> by_sub,
             email |-> IF payload.email # "" THEN payload.email
                       ELSE looked_up(by_sub)]
     ELSE [user_id |-> payload.userId, email |-> payload.email]

\* the limiter of a generation, applied for a user and a client address
help_limiter(generation, S, t, user_id, ip) ==
  IF generation = "per_ip" THEN check_help_rate_limit_per_ip(S, t, user_id, ip)
  ELSE IF generation = "per_user" THEN check_help_rate_limit(S, t, user_id)
  ELSE IF generation = "block_a" THEN check_rate_limit(S, t, user_id, ip)
  ELSE check_rate_limit_by_key(S, t, ip, user_id)

\* POST /complaints.  authorized: the Authorization header carries a token
\* that verifies; mail_fails: send_help_email throws.  Only "per_ip" and
\* "per_user" catch what send_help_email throws.
post_complaints(generation, U, S, C, t, authorized, payload, ip, body, mail_fails) ==
  LET identity == help_identity(generation, U, payload)
      user_id == identity.user_id
      hit == help_limiter(generation, S, t, user_id, ip)
      same(r) == [store |-> S, complaints |-> C, resp |-> r]
      limited_message ==
        IF generation = "block_a"
          THEN "You have reached the limit for help requests. Please wait before sending another message."
        ELSE IF generation = "block_b"
          THEN "Too many help requests. Please wait before trying again."
        ELSE "You have reached the limit for help requests. Please try again later."
  IN IF ~authorized \/ user_id = "" \/ identity.email = ""
       THEN same(HelpResponse(401, "Unauthorized"))
     ELSE IF ~hit.allowed
       THEN [store |-> hit.store, complaints |-> C,
             resp |-> HelpLimited(limited_message, hit.retryAfterSeconds)]
     ELSE IF body = "empty"
       THEN [store |-> hit.store, complaints |-> C,
             resp |-> HelpResponse(400, "Subject and message are required")]
     ELSE IF mail_fails /\ generation \in {"block_a", "block_b"}
       THEN [store |-> hit.store, complaints |-> save_complaint(C, user_id),
             resp |-> HelpResponse(500, "Request failed")]
     ELSE [store |-> hit.store, complaints |-> save_complaint(C, user_id),
           resp |-> HelpResponse(201, "Complaint submitted successfully")]

-----------------------------------------------------------------------------
(* The state machine *)

NoProbe == [known |-> NoResp, unknown |-> NoResp]

HelpRouters == {"per_ip", "per_user", "block_a", "block_b"}

\* process.env.NODE_ENV of the deployment
NodeEnvs == {"production", "development"}

Builds ==
  [auth : {"map", "doc"}, account : {"v1", "v2"}, help : HelpRouters,
   node_env : NodeEnvs]

\* an account that predates the password_hash field
LegacyUser(stored) ==
  [NoUser EXCEPT !.exists = TRUE, !.password = stored, !.role = "farmer"]

InitUsers ==
  {[e \in Emails |-> NoUser]}
  \cup {[e \in Emails |-> IF e = E1 THEN LegacyUser(h) ELSE NoUser] :
          h \in {bcrypt_hash(P1), plain_text(P1)}}

Init ==
  /\ build \in Builds
  /\ now = 0
  /\ users \in InitUsers
  /\ failed_login_by_email = [e \in Emails |-> NoRecord]
  /\ signup_otps = [e \in Emails |-> NoOtp]
  /\ histories = [e \in Emails |-> << >>]
  /\ securities = [e \in Emails |-> NoSecurity]
  /\ tokens = {}
  /\ req = NoReq
  /\ resp = NoResp
  /\ streak = [e \in Emails |-> 0]
  /\ staged = [e \in Emails |-> NoStage]
  /\ confirmed = [e \in Emails |-> ""]
  /\ probe = NoProbe
  /\ help_rate_store = [k \in HelpKeys |-> NoEntry]
  /\ complaints = [e \in Emails |-> 0]
  /\ granted = [k \in HelpKeys |-> 0]
  /\ served = [e \in Emails |-> 0]
  /\ calls = [c \in Calls |-> NoCall]
  /\ tally = [p \in Purposes |-> NoTally]
  /\ documents = [e \in Emails |-> IF users[e].exists THEN 1 ELSE 0]

LoginPasswords == {P1, P2, PWeak, ""}

RegisterEmails == {E1, " Farmer@Example.COM ", "farmer.example.com"}

RegisterPasswords == {P1, PWeak, PShort}

\* the mail transport: it sends, it throws, or none is configured
Transports == {"sent", "fails", "none"}

\* role values of a registration body: none, the two known roles, another
RoleInputs == {"", "farmer", "inspector", "admin"}

OldPasswords == {P1, P2, P3, PWeak, ""}

NewPasswords == {P1, P2, P3, PWeak, PLocal}

\* the login lock of an email, as the deployed auth router keeps it
LoginLockUntil(e) ==
  IF build.auth = "map" THEN failed_login_by_email[e].locked_until
  ELSE users[e].lock_until

LoginLockActive(e) == LoginLockUntil(e) # NoDate /\ now < LoginLockUntil(e)

LoginFailedCount(e) ==
  IF build.auth = "map" THEN failed_login_by_email[e].failed_count
  ELSE users[e].failed_login_attempts

\* no failure counted and no lock recorded
LoginClean(e) == LoginFailedCount(e) = 0 /\ LoginLockUntil(e) = NoDate

\* the login request as the deployed auth router handles it
LoginResultWhen(raw, pw, save_fails) ==
  IF build.auth = "map"
    THEN post_login_when(users, failed_login_by_email, now, raw, pw, save_fails)
    ELSE [users |-> postLoginWhen(users, now, raw, pw, save_fails).users,
          failed |-> failed_login_by_email,
          resp |-> postLoginWhen(users, now, raw, pw, save_fails).resp]

LoginResult(raw, pw) == LoginResultWhen(raw, pw, FALSE)

Issue(r) == IF r.token = "" THEN tokens ELSE tokens \cup {r.token}

LoginWhen(raw, pw, save_fails) ==
  LET e == normalize_email(raw)
      r == LoginResultWhen(raw, pw, save_fails)
  IN /\ \A x \in Emails : r.users[x].failed_login_attempts <= MaxFailedAttempts
     /\ users' = r.users
     /\ failed_login_by_email' = r.failed
     /\ resp' = r.resp
     /\ req' = IF e \in Emails
                  THEN [NoReq EXCEPT !.route = "login", !.email = e,
                                     !.password = pw,
                                     !.countBefore = LoginFailedCount(e),
                                     !.lockBefore = LoginLockUntil(e),
                                     !.lockedBefore = LoginLockActive(e),
                                     !.saveFails = save_fails]
                  ELSE [NoReq EXCEPT !.route = "login", !.email = e,
                                     !.password = pw, !.saveFails = save_fails]
     /\ tokens' = Issue(r.resp)
     /\ streak' =
          IF e \notin Emails THEN streak
          ELSE IF r.resp.status = 200 THEN [streak EXCEPT ![e] = 0]
          ELSE IF r.resp.status \in {401, 429} /\ ~LoginLockActive(e)
            THEN [streak EXCEPT ![e] =
                    IF LoginClean(e) THEN 1
                    ELSE IF @ < MaxStreak THEN @ + 1 ELSE @]
          ELSE streak
     /\ UNCHANGED help_vars
     /\ UNCHANGED call_vars
     /\ UNCHANGED <<probe, build, now, signup_otps, histories, securities, staged,
                    confirmed>>

Login(raw, pw) == LoginWhen(raw, pw, FALSE)

RegisterResultAs(raw, pw, code, role, smtp) ==
  IF build.auth = "map"
    THEN [users |-> users,
          otps |-> post_register_otp(users, signup_otps, now, raw, pw, code,
                                     role).otps,
          mail |-> post_register_otp(users, signup_otps, now, raw, pw, code,
                                     role).mail,
          resp |-> post_register_otp(users, signup_otps, now, raw, pw, code,
                                     role).resp]
    ELSE [users |-> postRegisterOtp(users, now, raw, pw, code,
                                    build.node_env, role, smtp).users,
          otps |-> signup_otps,
          mail |-> postRegisterOtp(users, now, raw, pw, code,
                                   build.node_env, role, smtp).mail,
          resp |-> postRegisterOtp(users, now, raw, pw, code,
                                   build.node_env, role, smtp).resp]

\* a registration whose body has no role
RegisterResult(raw, pw, code) == RegisterResultAs(raw, pw, code, "", "sent")

\* the documents after a request that leaves the User collection as U1
Inserted(U1) ==
  [e \in Emails |->
     IF U1[e].exists /\ ~users[e].exists THEN documents[e] + 1
     ELSE documents[e]]

\* the record of an accepted register-otp, taken before it is applied
Stage(e, pw, code, role) ==
  [password_hash |-> bcrypt_hash(pw), otp_code |-> code, role |-> role,
   replaced |-> IF confirmed[e] = "" THEN staged[e].otp_code ELSE ""]

RegisterOtpAs(raw, pw, code, role, smtp) ==
  LET e == normalize_email(raw)
      r == RegisterResultAs(raw, pw, code, role, smtp)
  IN /\ users' = r.users
     /\ signup_otps' = r.otps
     /\ resp' = r.resp
     /\ req' = [NoReq EXCEPT !.route = "register-otp", !.email = e,
                             !.password = pw, !.otp = code, !.role = role,
                             !.mailFails = smtp = "fails", !.mailed = r.mail]
     /\ staged' = IF r.resp.status = 200
                    THEN [staged EXCEPT ![e] = Stage(e, pw, code, role)]
                    ELSE staged
     /\ confirmed' = IF r.resp.status = 200
                       THEN [confirmed EXCEPT ![e] = ""] ELSE confirmed
     /\ documents' = Inserted(r.users)
     /\ UNCHANGED help_vars
     /\ UNCHANGED <<probe, build, now, failed_login_by_email, histories, securities,
                    tokens, streak, calls, tally>>

RegisterOtp(raw, pw, code) == RegisterOtpAs(raw, pw, code, "", "sent")

\* the pending registration of an email, as the deployed auth router keeps it
Pending(e) ==
  IF build.auth = "map" THEN signup_otps[e].present
  ELSE users[e].pending_otp_hash.alg # "none"

PendingExpiry(e) ==
  IF build.auth = "map" THEN signup_otps[e].otp_expires_at
  ELSE users[e].pending_otp_expires_at

VerifyResult(raw, otp) ==
  IF build.auth = "map"
    THEN post_verify_otp(users, signup_otps, now, raw, otp)
    ELSE [users |-> postVerifyOtp(users, now, raw, otp).users,
          otps |-> signup_otps,
          resp |-> postVerifyOtp(users, now, raw, otp).resp]

VerifyOtp(raw, otp) ==
  LET e == normalize_email(raw)
      r == VerifyResult(raw, otp)
  IN /\ users' = r.users
     /\ signup_otps' = r.otps
     /\ resp' = r.resp
     /\ req' = [NoReq EXCEPT !.route = "verify-otp", !.email = e, !.otp = otp,
                             !.dueBefore = e \in Emails /\ Pending(e)
                                           /\ now >= PendingExpiry(e)]
     /\ tokens' = Issue(r.resp)
     /\ confirmed' = IF r.resp.status = 200
                       THEN [confirmed EXCEPT ![e] = otp] ELSE confirmed
     /\ documents' = Inserted(r.users)
     /\ UNCHANGED help_vars
     /\ UNCHANGED <<probe, build, now, failed_login_by_email, histories, securities,
                    staged, streak, calls, tally>>

ChangeLockActive(e) ==
  securities[e].lockUntil # NoDate /\ now < securities[e].lockUntil

\* mail_fails: send_password_change_email throws
ChangeResultWhen(sub, old, new, mail_fails) ==
  IF build.account = "v1"
    THEN change_password_v1(users, histories, securities, now, sub, old, new,
                            mail_fails)
    ELSE change_password(users, histories, securities, now, sub, old, new,
                         mail_fails)

ChangeResult(sub, old, new) == ChangeResultWhen(sub, old, new, FALSE)

\* cap bounds the history entries the model follows
ChangePasswordWithin(sub, old, new, mail_fails, cap) ==
  LET r == ChangeResultWhen(sub, old, new, mail_fails)
  IN /\ \A x \in Emails : r.securities[x].failedAttempts <= MaxFailedAttempts
     /\ \A x \in Emails : Len(r.histories[x]) <= cap
     /\ users' = r.users
     /\ histories' = r.histories
     /\ securities' = r.securities
     /\ resp' = r.resp
     /\ req' = IF sub \in Emails
                  THEN [NoReq EXCEPT !.route = "change-password", !.email = sub,
                                     !.oldPassword = old, !.newPassword = new,
                                     !.countBefore = securities[sub].failedAttempts,
                                     !.lockBefore = securities[sub].lockUntil,
                                     !.lockedBefore = ChangeLockActive(sub),
                                     !.mailFails = mail_fails]
                  ELSE [NoReq EXCEPT !.route = "change-password", !.email = sub,
                                     !.oldPassword = old, !.newPassword = new,
                                     !.mailFails = mail_fails]
     /\ UNCHANGED help_vars
     /\ UNCHANGED call_vars
     /\ UNCHANGED <<probe, build, now, failed_login_by_email, signup_otps, tokens,
                    streak, staged, confirmed>>

ChangePassword(sub, old, new, mail_fails) ==
  ChangePasswordWithin(sub, old, new, mail_fails, MaxHistory)

TickStep == 10 * 60 * 1000

\* the instants at which some lock or code of the state expires
Deadlines ==
  {failed_login_by_email[e].locked_until : e \in Emails}
  \cup {users[e].lock_until : e \in Emails}
  \cup {users[e].pending_otp_expires_at : e \in Emails}
  \cup {signup_otps[e].otp_expires_at : e \in Emails}
  \cup {securities[e].lockUntil : e \in Emails}

TickTargets ==
  {t \in {now + TickStep} \cup Deadlines \cup {d - 1 : d \in Deadlines} :
     t > now /\ t <= MaxTime}

Tick ==
  /\ \E t \in TickTargets : now' = t
  /\ UNCHANGED help_vars
  /\ UNCHANGED call_vars
  /\ UNCHANGED <<probe, build, users, failed_login_by_email, signup_otps, histories,
                 securities, tokens, req, resp, streak, staged, confirmed>>

\* time passes to within half a second of a deadline
TickNear ==
  /\ \E d \in Deadlines : d - 400 > now /\ d - 400 <= MaxTime /\ now' = d - 400
  /\ UNCHANGED help_vars
  /\ UNCHANGED call_vars
  /\ UNCHANGED <<probe, build, users, failed_login_by_email, signup_otps,
                 histories, securities, tokens, req, resp, streak, staged,
                 confirmed>>

\* the key under which the deployed help router counts a user's requests
HelpKey(user_id, ip) ==
  IF build.help = "per_user" THEN <<user_id>> ELSE <<user_id, ip>>

\* the window of the deployed help router's limiter, ms
HelpWindow ==
  IF build.help \in {"per_ip", "per_user"} THEN HELP_WINDOW_SECONDS * 1000
  ELSE IF build.help = "block_a" THEN RATE_LIMIT_WINDOW_MS
  ELSE HELP_WINDOW_MS

ComplaintResult(authorized, payload, ip, body, mail_fails) ==
  post_complaints(build.help, users, help_rate_store, complaints, now,
                  authorized, payload, ip, body, mail_fails)

\* a help request; a token that verifies was issued for an account
Complain(authorized, payload, ip, body, mail_fails) ==
  LET r == ComplaintResult(authorized, payload, ip, body, mail_fails)
      id == help_identity(build.help, users, payload).user_id
      key == HelpKey(id, ip)
      reached == r.resp.status # 401
      allowed == r.resp.status \notin {401, 429}
      renewed == \/ ~help_rate_store[key].present
                 \/ r.store[key].windowStart # help_rate_store[key].windowStart
      before == IF renewed THEN 0 ELSE granted[key]
  IN /\ payload.sub # "" => payload.sub \in tokens
     /\ payload.userId # "" => users[payload.userId].exists
     /\ authorized => payload # NoPayload
     /\ \A k \in HelpKeys : r.store[k].count <= MaxHelpCount
     /\ allowed => served[id] < MaxServed
     /\ help_rate_store' = r.store
     /\ complaints' = r.complaints
     /\ resp' = r.resp
     /\ req' = [NoReq EXCEPT !.route = "complaints", !.email = id, !.ip = ip,
                             !.mailFails = mail_fails,
                             !.countBefore = IF reached THEN before ELSE 0,
                             !.dueBefore = reached /\ renewed]
     /\ granted' = IF ~reached THEN granted
                   ELSE [granted EXCEPT
                           ![key] = before + (IF allowed THEN 1 ELSE 0)]
     /\ served' = IF allowed THEN [served EXCEPT ![id] = @ + 1] ELSE served
     /\ UNCHANGED call_vars
     /\ UNCHANGED <<build, now, users, failed_login_by_email, signup_otps,
                    histories, securities, tokens, streak, staged, confirmed,
                    probe>>

\* the instants at which a window or a block of the limiter ends, with the
\* millisecond after
HelpDeadlines ==
  UNION {{help_rate_store[k].windowStart + HelpWindow,
          help_rate_store[k].blockedUntil} :
           k \in {x \in HelpKeys : help_rate_store[x].present}}

HelpTickTargets ==
  {t \in UNION {{d, d + 1} : d \in HelpDeadlines} :
     t > now /\ t <= HelpWindow + MaxHelpSlack}

\* time passes up to the end of a window or of a block
TickHelp ==
  /\ \E t \in HelpTickTargets : now' = t
  /\ UNCHANGED help_vars
  /\ UNCHANGED call_vars
  /\ UNCHANGED <<probe, build, users, failed_login_by_email, signup_otps,
                 histories, securities, tokens, req, resp, streak, staged,
                 confirmed>>


-----------------------------------------------------------------------------
(* Requests that overlap: a handler runs up to an await, other handlers    *)
(* run, and it resumes with what it had loaded                              *)

\* document.save(): the paths assigned since the document was loaded are
\* written, the others keep what the collection holds
save_modified(stored, loaded, local) ==
  [f \in DOMAIN stored |-> IF local[f] # loaded[f] THEN local[f] ELSE stored[f]]

\* login passes its checks and is suspended: in the user lookup of
\* account.js:721 ("map"), in bcrypt.compare of part_002:300 ("doc")
login_awaits(U, F, t, raw, pw) ==
  IF build.auth = "map"
    THEN /\ validate_email_format(normalize_email(raw)) /\ PwLength(pw) # 0
         /\ ~is_email_locked(F, t, normalize_email(raw)).is_locked
    ELSE /\ validateEmail(normalizeEmail(raw)) /\ PwLength(pw) # 0
         /\ U[normalizeEmail(raw)].exists
         /\ ~(/\ U[normalizeEmail(raw)].lock_until # NoDate
              /\ U[normalizeEmail(raw)].lock_until > t)
         /\ storedHashOf(U[normalizeEmail(raw)]).alg # "none"

\* the first part of a login that is not answered at once: the lock check on
\* the Map ("map"), or the user document loaded and checked ("doc")
LoginBegin(c, raw, pw) ==
  LET e == normalize_email(raw)
  IN /\ calls[c].pc = "idle"
     /\ login_awaits(users, failed_login_by_email, now, raw, pw)
     /\ calls' = [calls EXCEPT ![c] =
                    [NoCall EXCEPT !.pc = "awaiting", !.route = "login",
                                   !.email = e, !.password = pw,
                                   !.user = users[e], !.t0 = now]]
     /\ failed_login_by_email' =
          IF build.auth = "map"
            THEN is_email_locked(failed_login_by_email, now, e).failed
            ELSE failed_login_by_email
     /\ UNCHANGED help_vars
     /\ UNCHANGED <<probe, build, now, users, signup_otps, histories,
                    securities, tokens, req, resp, streak, staged, confirmed,
                    tally, documents>>

\* what the rest of a suspended login does.  "map": lookup, comparison and
\* register_failed_login / clear_failed_login on the Map as it is now.
\* "doc": the handler goes on with the document it loaded and the `now` it
\* took, and save() writes the paths it assigned.
LoginRest(call) ==
  LET e == call.email
      loaded == [users EXCEPT ![e] = call.user]
      local == postLogin(loaded, call.t0, e, call.password)
  IN IF build.auth = "map"
       THEN post_login_after_check(users, failed_login_by_email, now, e,
                                   call.password)
       ELSE [users |-> [users EXCEPT ![e] =
                          save_modified(users[e], call.user, local.users[e])],
             failed |-> failed_login_by_email,
             resp |-> local.resp]

LockAfterLogin(r, e) ==
  IF build.auth = "map" THEN r.failed[e].locked_until
  ELSE r.users[e].lock_until

Tallied(p, wrong, lock_set) ==
  IF wrong
    THEN [tally EXCEPT ![p] =
            [wrong |-> IF @.wrong < MaxWrong THEN @.wrong + 1 ELSE @.wrong,
             locked |-> @.locked \/ lock_set,
             compared |-> IF @.closed THEN 1
                          ELSE IF @.compared < MaxWrong THEN @.compared + 1
                          ELSE @.compared,
             closed |-> lock_set]]
    ELSE [tally EXCEPT ![p] = NoTally]

LoginEnd(c) ==
  LET call == calls[c]
      e == call.email
      r == LoginRest(call)
  IN /\ call.pc = "awaiting" /\ call.route = "login"
     /\ r.users[e].failed_login_attempts <= MaxFailedAttempts
     /\ users' = r.users
     /\ failed_login_by_email' = r.failed
     /\ resp' = r.resp
     /\ req' = [NoReq EXCEPT !.route = "login", !.email = e,
                             !.password = call.password,
                             !.countBefore = LoginFailedCount(e),
                             !.lockBefore = LoginLockUntil(e),
                             !.lockedBefore = LoginLockActive(e)]
     /\ tokens' = Issue(r.resp)
     /\ streak' =
          IF r.resp.status = 200 THEN [streak EXCEPT ![e] = 0]
          ELSE IF ~LoginLockActive(e)
            THEN [streak EXCEPT ![e] =
                    IF LoginClean(e) THEN 1
                    ELSE IF @ < MaxStreak THEN @ + 1 ELSE @]
          ELSE streak
     /\ calls' = [calls EXCEPT ![c] = NoCall]
     /\ tally' = Tallied("login", r.resp.status # 200,
                         LockAfterLogin(r, e) \notin {NoDate, LoginLockUntil(e)})
     /\ UNCHANGED help_vars
     /\ UNCHANGED <<probe, build, now, signup_otps, histories, securities,
                    staged, confirmed, documents>>

\* change-password passes its checks and is suspended in the comparison of
\* the old password (PasswordHistory.js:386, account.js:218)
change_awaits(U, Sec, t, sub, old_password, new_password) ==
  /\ sub # "" /\ old_password # "" /\ new_password # ""
  /\ U[sub].exists
  /\ ~check_lockout(get_or_create_security(Sec, sub)[sub], t).locked
  /\ submitted_passwords_error(old_password, new_password, user_email(sub)) = ""
  /\ IF build.account = "v1" THEN U[sub].password.alg # "none"
     ELSE get_current_password_hash(U[sub]).alg # "none"

\* the first part of a change-password that is not answered at once: the
\* user and the security document loaded, `now` taken, the lock checked
ChangeBegin(c, sub, old, new) ==
  /\ calls[c].pc = "idle"
  /\ change_awaits(users, securities, now, sub, old, new)
  /\ securities' = get_or_create_security(securities, sub)
  /\ calls' = [calls EXCEPT ![c] =
                 [NoCall EXCEPT !.pc = "awaiting", !.route = "change-password",
                                !.email = sub, !.password = old,
                                !.newPassword = new, !.user = users[sub],
                                !.security = securities'[sub], !.t0 = now]]
  /\ UNCHANGED help_vars
  /\ UNCHANGED <<probe, build, now, users, failed_login_by_email, signup_otps,
                 histories, tokens, req, resp, streak, staged, confirmed,
                 tally, documents>>

\* what the rest of a suspended change-password does with the documents it
\* loaded; security.save() and user.save() write the paths it assigned
ChangeRest(call) ==
  LET sub == call.email
      loadedU == [users EXCEPT ![sub] = call.user]
      loadedS == [securities EXCEPT ![sub] = call.security]
      local ==
        IF build.account = "v1"
          THEN change_password_v1(loadedU, histories, loadedS, call.t0, sub,
                                  call.password, call.newPassword, FALSE)
          ELSE change_password(loadedU, histories, loadedS, call.t0, sub,
                               call.password, call.newPassword, FALSE)
  IN [users |-> [users EXCEPT ![sub] =
                   save_modified(users[sub], call.user, local.users[sub])],
      histories |-> local.histories,
      securities |-> [securities EXCEPT ![sub] =
                        save_modified(securities[sub], call.security,
                                      local.securities[sub])],
      resp |-> local.resp]

ChangeEnd(c) ==
  LET call == calls[c]
      sub == call.email
      r == ChangeRest(call)
  IN /\ call.pc = "awaiting" /\ call.route = "change-password"
     /\ r.securities[sub].failedAttempts <= MaxFailedAttempts
     /\ Len(r.histories[sub]) <= MaxHistory
     /\ users' = r.users
     /\ histories' = r.histories
     /\ securities' = r.securities
     /\ resp' = r.resp
     /\ req' = [NoReq EXCEPT !.route = "change-password", !.email = sub,
                             !.oldPassword = call.password,
                             !.newPassword = call.newPassword,
                             !.countBefore = securities[sub].failedAttempts,
                             !.lockBefore = securities[sub].lockUntil,
                             !.lockedBefore = ChangeLockActive(sub)]
     /\ calls' = [calls EXCEPT ![c] = NoCall]
     /\ tally' = Tallied("change-password",
                         r.resp.message = "Old password is incorrect",
                         r.securities[sub].lockUntil
                           \notin {NoDate, securities[sub].lockUntil})
     /\ UNCHANGED help_vars
     /\ UNCHANGED <<probe, build, now, failed_login_by_email, signup_otps,
                    tokens, streak, staged, confirmed, documents>>


\* mutant: the User collection has no unique index on email
insert_user_unindexed(U, D, e, doc) ==
  [ok |-> TRUE, users |-> [U EXCEPT ![e] = doc],
   documents |-> [D EXCEPT ![e] = @ + 1]]

\* save() of a new User under the unique index on email
\* (PasswordHistory.js:131-132): a second document for the email is refused
\* with a duplicate-key error
insert_user(U, D, e, doc) ==
  IF D[e] > 0 THEN [ok |-> FALSE, users |-> U, documents |-> D]
  ELSE [ok |-> TRUE, users |-> [U EXCEPT ![e] = doc],
        documents |-> [D EXCEPT ![e] = @ + 1]]

\* user.save(): an update of the document that was loaded, an insert when
\* findOne had found none
save_user(U, D, e, loaded, local) ==
  IF loaded.exists
    THEN [ok |-> TRUE,
          users |-> [U EXCEPT ![e] = save_modified(U[e], loaded, local)],
          documents |-> D]
    ELSE insert_user(U, D, e, local)

\* verify-otp of account.js finds a live pending record with the submitted
\* code and goes on to look the user up and save it
verify_awaits(S, t, raw, otp) ==
  /\ validate_email_format(normalize_email(raw))
  /\ OtpLength(otp) >= 4 /\ OtpLength(otp) <= 10
  /\ S[normalize_email(raw)].present
  /\ ~otp_is_expired(S[normalize_email(raw)], t)
  /\ S[normalize_email(raw)].otp_code = otp

\* account.js:628-646: the pending record and the user are loaded
VerifyBegin(c, raw, otp) ==
  LET e == normalize_email(raw)
  IN /\ build.auth = "map"
     /\ calls[c].pc = "idle"
     /\ verify_awaits(signup_otps, now, raw, otp)
     /\ calls' = [calls EXCEPT ![c] =
                    [NoCall EXCEPT !.pc = "awaiting", !.route = "verify-otp",
                                   !.email = e, !.otp = otp,
                                   !.otp_record = signup_otps[e],
                                   !.user = users[e], !.t0 = now]]
     /\ UNCHANGED help_vars
     /\ UNCHANGED <<probe, build, now, users, failed_login_by_email,
                    signup_otps, histories, securities, tokens, req, resp,
                    streak, staged, confirmed, tally, documents>>

\* account.js:647-662: the user is created or updated from the pending
\* record that was loaded; a refused save ends in the catch of line 672
VerifySave(c) ==
  LET call == calls[c]
      e == call.email
      local == post_verify_otp([users EXCEPT ![e] = call.user],
                               [signup_otps EXCEPT ![e] = call.otp_record],
                               call.t0, e, call.otp).users[e]
      w == save_user(users, documents, e, call.user, local)
  IN /\ call.pc = "awaiting" /\ call.route = "verify-otp"
     /\ users' = w.users
     /\ documents' = w.documents
     /\ IF w.ok
          THEN /\ calls' = [calls EXCEPT ![c].pc = "saved"]
               /\ UNCHANGED <<req, resp>>
          ELSE /\ calls' = [calls EXCEPT ![c] = NoCall]
               /\ req' = [NoReq EXCEPT !.route = "verify-otp", !.email = e,
                                       !.otp = call.otp, !.saveFails = TRUE]
               /\ resp' = Response("verify-otp", 500, "Verification failed")
     /\ UNCHANGED help_vars
     /\ UNCHANGED <<probe, build, now, failed_login_by_email, signup_otps,
                    histories, securities, tokens, streak, staged, confirmed,
                    tally>>

\* account.js:663-671: the pending record is deleted and the token sent;
\* delete_fails: deleteOne throws, or the process stops before it
VerifyEnd(c, delete_fails) ==
  LET call == calls[c]
      e == call.email
      user == post_verify_otp([users EXCEPT ![e] = call.user],
                              [signup_otps EXCEPT ![e] = call.otp_record],
                              call.t0, e, call.otp).users[e]
  IN /\ call.pc = "saved" /\ call.route = "verify-otp"
     /\ signup_otps' = IF delete_fails THEN signup_otps
                       ELSE delete_otp_record(signup_otps, e)
     /\ resp' = IF delete_fails
                  THEN Response("verify-otp", 500, "Verification failed")
                  ELSE [Response("verify-otp", 200, "")
                          EXCEPT !.token = e,
                                 !.role = create_jwt_for_user(user)]
     /\ req' = [NoReq EXCEPT !.route = "verify-otp", !.email = e,
                             !.otp = call.otp]
     /\ tokens' = Issue(resp')
     /\ confirmed' = IF delete_fails THEN confirmed
                     ELSE [confirmed EXCEPT ![e] = call.otp]
     /\ calls' = [calls EXCEPT ![c] = NoCall]
     /\ UNCHANGED help_vars
     /\ UNCHANGED <<probe, build, now, users, failed_login_by_email, histories,
                    securities, streak, staged, tally, documents>>

\* register-otp of part_002 passes its checks (113-139) and goes on to hash
\* the password and save the user
register_awaits(U, raw, pw) ==
  /\ validateEmail(normalizeEmail(raw))
  /\ validatePasswordStrength(pw) = ""
  /\ ~(U[normalizeEmail(raw)].exists /\ U[normalizeEmail(raw)].email_verified)

\* part_002:113-141: the user document is looked up
RegisterBegin(c, raw, pw, code, role) ==
  LET e == normalizeEmail(raw)
  IN /\ build.auth = "doc"
     /\ calls[c].pc = "idle"
     /\ register_awaits(users, raw, pw)
     /\ calls' = [calls EXCEPT ![c] =
                    [NoCall EXCEPT !.pc = "awaiting", !.route = "register-otp",
                                   !.email = e, !.password = pw, !.otp = code,
                                   !.role = role, !.user = users[e],
                                   !.t0 = now]]
     /\ UNCHANGED help_vars
     /\ UNCHANGED <<probe, build, now, users, failed_login_by_email,
                    signup_otps, histories, securities, tokens, req, resp,
                    streak, staged, confirmed, tally, documents>>

\* part_002:141-185: the user is created or updated and saved; a refused
\* save ends in the catch of line 181
RegisterEnd(c) ==
  LET call == calls[c]
      e == call.email
      local == postRegisterOtp([users EXCEPT ![e] = call.user], now, e,
                               call.password, call.otp, build.node_env,
                               call.role, "sent")
      w == save_user(users, documents, e, call.user, local.users[e])
  IN /\ call.pc = "awaiting" /\ call.route = "register-otp"
     /\ users' = w.users
     /\ documents' = w.documents
     /\ resp' = IF w.ok THEN local.resp
                ELSE Response("register-otp", 500, "Registration failed")
     /\ req' = [NoReq EXCEPT !.route = "register-otp", !.email = e,
                             !.password = call.password, !.otp = call.otp,
                             !.role = call.role, !.saveFails = ~w.ok,
                             !.mailed = IF w.ok THEN local.mail ELSE NoMail]
     /\ staged' = IF w.ok
                    THEN [staged EXCEPT ![e] =
                            Stage(e, call.password, call.otp, call.role)]
                    ELSE staged
     /\ confirmed' = IF w.ok THEN [confirmed EXCEPT ![e] = ""] ELSE confirmed
     /\ calls' = [calls EXCEPT ![c] = NoCall]
     /\ UNCHANGED help_vars
     /\ UNCHANGED <<probe, build, now, failed_login_by_email, signup_otps,
                    histories, securities, tokens, streak, tally>>


Next ==
  \/ \E raw \in RawEmails, pw \in LoginPasswords, save_fails \in BOOLEAN :
       LoginWhen(raw, pw, save_fails)
  \/ \E raw \in RegisterEmails, pw \in RegisterPasswords, code \in Codes,
        role \in RoleInputs :
       \E smtp \in Transports : RegisterOtpAs(raw, pw, code, role, smtp)
  \/ \E raw \in RawEmails, otp \in OtpInputs : VerifyOtp(raw, otp)
  \/ \E sub \in tokens \cup {""}, old \in OldPasswords, new \in NewPasswords,
        mail_fails \in BOOLEAN :
       ChangePassword(sub, old, new, mail_fails)
  \/ \E authorized \in BOOLEAN, e \in Emails, ip \in IPs, body \in Bodies,
        mail_fails \in BOOLEAN :
       \/ Complain(authorized, SubPayload(e), ip, body, mail_fails)
       \/ Complain(authorized, IdEmailPayload(e), ip, body, mail_fails)
  \/ \E c \in Calls, raw \in RawEmails, pw \in LoginPasswords :
       LoginBegin(c, raw, pw)
  \/ \E c \in Calls : LoginEnd(c)
  \/ \E c \in Calls, sub \in tokens, old \in OldPasswords, new \in NewPasswords :
       ChangeBegin(c, sub, old, new)
  \/ \E c \in Calls : ChangeEnd(c)
  \/ \E c \in Calls, raw \in RawEmails, otp \in OtpInputs : VerifyBegin(c, raw, otp)
  \/ \E c \in Calls : VerifySave(c)
  \/ \E c \in Calls, delete_fails \in BOOLEAN : VerifyEnd(c, delete_fails)
  \/ \E c \in Calls, raw \in RegisterEmails, pw \in RegisterPasswords,
        code \in Codes :
       \E role \in RoleInputs : RegisterBegin(c, raw, pw, code, role)
  \/ \E c \in Calls : RegisterEnd(c)
  \/ Tick
  \/ TickNear
  \/ TickHelp

Spec == Init /\ [][Next]_vars

-----------------------------------------------------------------------------
(* Login and lockout, with the registration that creates the account *)

\* the auth routes read neither the account nor the help router in use
InitLogin ==
  /\ Init /\ build.account = "v2" /\ build.help = "per_user"
  /\ build.node_env = "production"

NextLogin ==
  \/ \E raw \in RawEmails \ {E2}, pw \in {P1, P2, ""} : Login(raw, pw)
  \/ \E raw \in {E1, "farmer.example.com"}, pw \in {P1, PShort} :
       RegisterOtp(raw, pw, "482913")
  \/ \E raw \in {E1, "farmer.example.com"}, otp \in OtpInputs :
       VerifyOtp(raw, otp)
  \/ Tick

SpecLogin == InitLogin /\ [][NextLogin]_vars

LOCKOUT_MS == lockout_minutes * 60 * 1000

\* the raw forms of a canonical email
RawOf(e) == {raw \in RawEmails : normalize_email(raw) = e}

\* the password the account of e accepts is pw
Accepts(e, pw) ==
  IF build.auth = "map" THEN login_compare(users[e], pw).password_matches
  ELSE users[e].exists /\ bcrypt_compare(pw, storedHashOf(users[e]))

\* C1, first part: while the login lock of an email is active, every login
\* request for it, the one with the accepted password included, is answered
\* 429 without a token, and leaves the lock as it is.
C1_LockedRejects ==
  \A e \in Emails : LoginLockActive(e) =>
    \A raw \in RawOf(e), pw \in Passwords :
      /\ LoginResult(raw, pw).resp.status = 429
      /\ LoginResult(raw, pw).resp.token = ""
      /\ LoginResult(raw, pw).users = users
      /\ LoginResult(raw, pw).failed = failed_login_by_email

\* C1, second part: the failed login that is the MAX_FAILED_ATTEMPTS-th in a
\* row for an account sets the lock to now + the lockout duration.
C1_FifthLocks ==
  \A e \in Emails :
    (users[e].exists /\ streak[e] = max_failed_attempts - 1
       /\ streak'[e] = max_failed_attempts)
    => (LoginLockUntil(e))' = now + LOCKOUT_MS

\* C1: after MAX_FAILED_ATTEMPTS consecutive failed logins for an account's
\* email, every further login for it, even with the correct password, is
\* rejected with 429 for as long as now < lock_until.
C1_Lockout == []C1_LockedRejects /\ [][C1_FifthLocks]_vars

\* a login with the accepted password was answered 429 during a lock that
\* the fifth failure in a row had set
C1_Witness ==
  /\ req.route = "login" /\ req.lockedBefore /\ resp.status = 429
  /\ users[req.email].exists /\ Accepts(req.email, req.password)
  /\ streak[req.email] = max_failed_attempts

\* C2: after a successful login the login lockout state of that identity
\* has failed_attempts = 0 and no lock_until, whatever preceded it.
C2_SuccessResets ==
  (req.route = "login" /\ resp.status = 200)
  => (LoginFailedCount(req.email) = 0 /\ LoginLockUntil(req.email) = NoDate)

\* a login succeeded after failures had been counted
C2_Witness ==
  /\ req.route = "login" /\ resp.status = 200 /\ req.countBefore > 0
  /\ LoginFailedCount(req.email) = 0

\* a login succeeded after a lock had expired
C2_WitnessExpired ==
  /\ req.route = "login" /\ resp.status = 200 /\ req.lockBefore # NoDate
  /\ LoginLockUntil(req.email) = NoDate

\* a failed login for an existing account that did not find the lock active
CountedFailure ==
  /\ req.route = "login" /\ resp.status \in {401, 429}
  /\ ~req.lockedBefore /\ users[req.email].exists

-----------------------------------------------------------------------------
(* Registration with OTP *)

NextOtp ==
  \/ \E raw \in RegisterEmails, pw \in RegisterPasswords, code \in Codes :
       RegisterOtp(raw, pw, code)
  \/ \E raw \in RawEmails \ {E2}, otp \in OtpInputs : VerifyOtp(raw, otp)
  \/ Tick

SpecOtp == InitLogin /\ [][NextOtp]_vars

\* the credential login compares against, as the deployed router picks it
Credential(e) ==
  IF build.auth = "map"
    THEN (IF users[e].password_hash.alg # "none" THEN users[e].password_hash
          ELSE users[e].password)
    ELSE storedHashOf(users[e])

\* C7: a code that verify-otp has accepted is spent: the pending record is
\* gone, and submitting the same code again fails with 400, issues no token
\* and neither creates nor changes an account.
C7_OneShot ==
  \A e \in Emails : confirmed[e] # "" =>
    /\ ~Pending(e)
    /\ users[e].exists
    /\ \A raw \in RawOf(e) :
         /\ VerifyResult(raw, confirmed[e]).resp.status = 400
         /\ VerifyResult(raw, confirmed[e]).resp.token = ""
         /\ VerifyResult(raw, confirmed[e]).users = users

\* the accepted code was submitted a second time and refused
C7_Witness ==
  /\ req.route = "verify-otp" /\ req.email \in Emails
  /\ req.otp = confirmed[req.email]
  /\ resp.status = 400 /\ users[req.email].exists

\* C8: a verify-otp evaluated at now >= otp_expiry never succeeds, now equal
\* to otp_expiry included.
C8_InclusiveExpiry ==
  (req.route = "verify-otp" /\ resp.status = 200) => ~req.dueBefore

\* C9: after a successful verify-otp the account of that email exists, has
\* email_verified = true, holds the credential staged by the latest
\* register-otp, and no pending OTP is left.
C9_Promoted ==
  (req.route = "verify-otp" /\ resp.status = 200) =>
    /\ users[req.email].exists
    /\ users[req.email].email_verified
    /\ Credential(req.email) = staged[req.email].password_hash
    /\ ~Pending(req.email)

-----------------------------------------------------------------------------
(* Change-password, with the logins that obtain the bearer token *)

NextAccount ==
  \/ \E sub \in tokens, old \in {P1, P2}, new \in {P1, P2, P3, PWeak} :
       ChangePassword(sub, old, new, FALSE)
  \/ ChangePassword("", P1, P2, FALSE)
  \/ Login(E1, P1)
  \/ RegisterOtp(E1, P1, "482913")
  \/ VerifyOtp(E1, "482913")

InitAccount ==
  Init /\ build.help = "per_user" /\ build.node_env = "production"

SpecAccount == InitAccount /\ [][NextAccount]_vars

C4_Witness ==
  /\ req.route = "change-password" /\ resp.status = 200
  /\ req.email \in Emails /\ Len(histories[req.email]) > 0
  /\ Accepts(req.email, req.newPassword)

\* the hash change-password verifies the old password against
CurrentHash(e) ==
  IF build.account = "v1" THEN users[e].password
  ELSE get_current_password_hash(users[e])

\* the retired hashes of e, newest PASSWORD_HISTORY_DEPTH of them
RecentlyRetired(e) ==
  {histories[e][i].passwordHash :
     i \in {j \in DOMAIN histories[e] :
              j > Len(histories[e]) - PASSWORD_HISTORY_DEPTH}}

ReuseMessages ==
  {"New password must be different from old password",
   "New password must be different from your current password",
   "New password cannot reuse one of your recent passwords"}

C6_SameRejectedFirst ==
  \A e \in tokens, p \in Passwords :
    LET r == ChangeResult(e, p, p)
    IN ~ChangeLockActive(e)
       => /\ r.resp.status = 400
          /\ r.resp.message = "New password must be different from old password"
          /\ r.users = users /\ r.histories = histories
          /\ r.securities = get_or_create_security(securities, e)

\* equal passwords were refused although the password was not the current
\* one and was in the history
C6_Witness ==
  /\ req.route = "change-password" /\ req.email \in Emails
  /\ req.oldPassword = req.newPassword /\ ~req.lockedBefore
  /\ resp.message = "New password must be different from old password"
  /\ ~bcrypt_compare(req.oldPassword, CurrentHash(req.email))
  /\ \E h \in RecentlyRetired(req.email) : bcrypt_compare(req.newPassword, h)
  /\ securities[req.email].failedAttempts = req.countBefore

-----------------------------------------------------------------------------
(* Failed logins sent in lockstep for an account and for an unknown email *)

\* POST /login handled on collections U and F
LoginOn(U, F, raw, pw) ==
  IF build.auth = "map" THEN post_login(U, F, now, raw, pw)
  ELSE [users |-> postLogin(U, now, raw, pw).users,
        failed |-> F,
        resp |-> postLogin(U, now, raw, pw).resp]

\* two login requests with the same password, neither of which can succeed:
\* one for known, which has an account pw is wrong for, then one for unknown,
\* which has no account
LoginProbe(known, unknown, pw) ==
  LET first == LoginOn(users, failed_login_by_email, known, pw)
      second == LoginOn(first.users, first.failed, unknown, pw)
  IN /\ users[known].exists /\ ~users[unknown].exists
     /\ ~Accepts(known, pw)
     /\ \A x \in Emails :
          second.users[x].failed_login_attempts <= MaxFailedAttempts
     /\ users' = second.users
     /\ failed_login_by_email' = second.failed
     /\ req' = [NoReq EXCEPT !.route = "login", !.email = unknown,
                             !.password = pw,
                             !.countBefore = LoginFailedCount(known),
                             !.lockBefore = LoginLockUntil(known),
                             !.lockedBefore = LoginLockActive(known)]
     /\ resp' = second.resp
     /\ probe' = [known |-> first.resp, unknown |-> second.resp]
     /\ streak' = [streak EXCEPT ![known] =
                     IF LoginLockActive(known) THEN @
                     ELSE IF LoginClean(known) THEN 1
                     ELSE IF @ < MaxStreak THEN @ + 1 ELSE @]
     /\ UNCHANGED <<build, now, signup_otps, histories, securities, tokens,
                    staged, confirmed>>
     /\ UNCHANGED help_vars
     /\ UNCHANGED call_vars

InitEnum == InitLogin /\ users[E1].exists

NextEnum ==
  \/ \E pw \in {P2, P3, PWeak} : LoginProbe(E1, E2, pw)
  \/ Tick

SpecEnum == InitEnum /\ [][NextEnum]_vars

\* C10: a failed login for an email without an account and the same failed
\* login for an account get the same status and the same message, at every
\* position of a run.
C10_NoEnumeration ==
  /\ probe.known.status = probe.unknown.status
  /\ probe.known.message = probe.unknown.message

-----------------------------------------------------------------------------
(* Help requests of one account, from two client addresses *)

InitHelp ==
  /\ Init /\ build.auth = "doc" /\ build.account = "v2"
  /\ build.node_env = "production"
  /\ users[E1].exists /\ users[E1].password.alg = "bcrypt"

NextHelp ==
  \/ Login(E1, P1)
  \/ \E ip \in IPs :
       \/ Complain(TRUE, SubPayload(E1), ip, "ok", FALSE)
       \/ Complain(TRUE, IdEmailPayload(E1), ip, "ok", FALSE)
  \/ Complain(FALSE, NoPayload, "10.0.0.1", "ok", FALSE)
  \/ TickHelp

SpecHelp == InitHelp /\ [][NextHelp]_vars

\* the limit of the deployed help router's limiter
HelpMax ==
  IF build.help \in {"per_ip", "per_user"} THEN HELP_MAX_PER_WINDOW
  ELSE IF build.help = "block_a" THEN RATE_LIMIT_MAX_REQUESTS
  ELSE HELP_MAX_REQUESTS

\* C11: for every key of the rate limiter, at most HelpMax requests are
\* allowed between two starts of its window, and once that many have been
\* allowed every request that does not start a new window is denied (429).
C11_WindowBound ==
  /\ \A k \in HelpKeys : granted[k] <= HelpMax
  /\ \A ip \in IPs, payload \in {SubPayload(E1), IdEmailPayload(E1)} :
       LET identity == help_identity(build.help, users, payload)
           key == HelpKey(identity.user_id, ip)
           r == ComplaintResult(TRUE, payload, ip, "ok", FALSE)
       IN (/\ identity.user_id # "" /\ identity.email # ""
           /\ help_rate_store[key].present
           /\ granted[key] >= HelpMax
           /\ r.store[key].windowStart = help_rate_store[key].windowStart)
          => r.resp.status = 429

\* a request was denied after HelpMax had been allowed in the window, and
\* an earlier window of the same key had been used up and restarted
C11_Witness ==
  /\ req.route = "complaints" /\ resp.status = 429
  /\ req.countBefore = HelpMax /\ ~req.dueBefore
  /\ served[req.email] > HelpMax

HOUR_MS == 60 * 60 * 1000

\* C12: within one hour an account gets at most five help requests past the
\* rate limiter, from however many client addresses.
C12_PerAccount ==
  \A e \in Emails : now < HOUR_MS => served[e] <= HELP_MAX_PER_WINDOW

-----------------------------------------------------------------------------
(* Locks of one account, reported at instants close to their end *)

NextRetry ==
  \/ \E pw \in {P1, P2} : Login(E1, pw)
  \/ \E sub \in tokens, old \in {P1, P3} : ChangePassword(sub, old, P2, FALSE)
  \/ Tick
  \/ TickNear

InitRetry == InitAccount /\ users[E1].exists

SpecRetry == InitRetry /\ [][NextRetry]_vars

\* the login lock of e after a login request has been handled
\* C13: a 429 of login or of change-password carries retryAfterSeconds equal
\* to the remaining lock time rounded up to whole seconds, which is at least
\* 1 and at most the lockout duration in seconds.
C13_RetryAfter ==
  /\ \A pw \in {P1, P2} :
       LET r == LoginResult(E1, pw)
           seconds == r.resp.retryAfterSeconds
       IN r.resp.status = 429
          => /\ seconds = CeilSeconds(LockAfterLogin(r, E1) - now)
             /\ seconds >= 1 /\ seconds <= lockout_minutes * 60
  /\ \A sub \in tokens, old \in {P1, P3} :
       LET r == ChangeResult(sub, old, P2)
           seconds == r.resp.retryAfterSeconds
       IN r.resp.status = 429
          => /\ seconds = CeilSeconds(r.securities[sub].lockUntil - now)
             /\ seconds >= 1 /\ seconds <= LOCKOUT_MINUTES * 60

\* Password changes whose notification may fail to send, both generations of
\* the change-password route.
NextNotice ==
  \/ Login(E1, P1)
  \/ \E sub \in tokens, old \in {P1, P2}, new \in {P2, P3},
        mail_fails \in BOOLEAN :
       ChangePassword(sub, old, new, mail_fails)
  \/ Tick

InitNotice == InitAccount /\ users[E1].exists /\ build.auth = "map"

SpecNotice == InitNotice /\ [][NextNotice]_vars

\* C14: whenever a change-password stores the rotation, it does all it does
\* when send_password_change_email throws as well: the same 200, the new
\* credential and the history entry for the previous one.
C14_BestEffortNotice ==
  \A sub \in tokens, old \in Passwords, new \in Passwords :
    LET sent == ChangeResultWhen(sub, old, new, FALSE)
        unsent == ChangeResultWhen(sub, old, new, TRUE)
    IN sent.resp.status = 200
       => /\ unsent.resp = sent.resp
          /\ unsent.users = sent.users /\ unsent.users # users
          /\ unsent.histories = sent.histories
          /\ Len(unsent.histories[sub]) = Len(histories[sub]) + 1

\* a password was changed although the notification could not be sent
C14_Witness ==
  /\ req.route = "change-password" /\ req.mailFails /\ resp.status = 200
  /\ req.email \in Emails /\ Len(histories[req.email]) > 0
  /\ bcrypt_compare(req.newPassword, CurrentHash(req.email))

-----------------------------------------------------------------------------
(* What the auth responses disclose, in production and outside it *)

InitSecrets ==
  Init /\ build.account = "v2" /\ build.help = "per_user"

NextSecrets ==
  \/ \E code \in Codes : RegisterOtp(E1, P1, code)
  \/ \E otp \in OtpInputs : VerifyOtp(E1, otp)
  \/ \E pw \in {P1, P2} : Login(E1, pw)
  \/ Tick

SpecSecrets == InitSecrets /\ [][NextSecrets]_vars

\* the strings of a response body other than the user's name, email and role
Disclosed(r) == {r.message, r.token, r.debug_otp} \ {""}

\* the verification code a pending registration is waiting for
PendingCode(e) ==
  IF build.auth = "map" THEN signup_otps[e].otp_code
  ELSE users[e].pending_otp_hash.of

\* C15: no response of register-otp, verify-otp or login carries the pending
\* verification code, a stored password or what a stored hash was made from.
C15_NoSecrets ==
  resp.route \in {"register-otp", "verify-otp", "login"}
  => \A e \in Emails :
       /\ PendingCode(e) \notin Disclosed(resp)
       /\ users[e].password_hash.of \notin Disclosed(resp)
       /\ users[e].password.of \notin Disclosed(resp)

\* the last request set or moved the login lock of its email
LoginLockSet ==
  /\ req.route = "login" /\ req.email \in Emails
  /\ LoginLockUntil(req.email) # NoDate
  /\ LoginLockUntil(req.email) # req.lockBefore

\* the last request set or moved the password-change lock of its account
ChangeLockSet ==
  /\ req.route = "change-password" /\ req.email \in Emails
  /\ securities[req.email].lockUntil # NoDate
  /\ securities[req.email].lockUntil # req.lockBefore

\* C16: the failure that sets a lock (of login, or of change-password) leaves
\* the failure count of that identity at 0.
C16_LockResetsCount ==
  /\ LoginLockSet => LoginFailedCount(req.email) = 0
  /\ ChangeLockSet => securities[req.email].failedAttempts = 0

-----------------------------------------------------------------------------
(* Wrong-credential requests in flight together, for one account *)

InitRace ==
  /\ InitAccount
  /\ users[E1].exists /\ users[E1].password.alg = "bcrypt"

\* ten minutes pass
TickMinutes ==
  /\ now + TickStep <= MaxTime
  /\ now' = now + TickStep
  /\ UNCHANGED help_vars
  /\ UNCHANGED call_vars
  /\ UNCHANGED <<probe, build, users, failed_login_by_email, signup_otps,
                 histories, securities, tokens, req, resp, streak, staged,
                 confirmed>>

\* logins with a wrong password
NextRace ==
  \/ \E c \in Calls : LoginBegin(c, E1, P2)
  \/ /\ ~login_awaits(users, failed_login_by_email, now, E1, P2)
     /\ Login(E1, P2)
  \/ \E c \in Calls : LoginEnd(c)
  \/ TickMinutes

InitRaceLogin == InitRace /\ build.account = "v2"

SpecRace == InitRaceLogin /\ [][NextRace]_vars

\* after one login, password changes with a wrong old password
NextRaceChange ==
  \/ tokens = {} /\ Login(E1, P1)
  \/ \E c \in Calls, sub \in tokens : ChangeBegin(c, sub, P3, P2)
  \/ \E sub \in tokens :
       /\ ~change_awaits(users, securities, now, sub, P3, P2)
       /\ ChangePassword(sub, P3, P2, FALSE)
  \/ \E c \in Calls : ChangeEnd(c)
  \/ TickMinutes

InitRaceChange == InitRace /\ build.auth = "doc"

SpecRaceChange == InitRaceChange /\ [][NextRaceChange]_vars

\* the last request was a wrong-credential one that resumed from its await
Resumed(route) ==
  /\ req.route = route /\ req.email \in Emails /\ resp.status # 200

\* C17: a wrong-credential request that resumes while the lock of its
\* identity is active leaves lock_until and failed_attempts as they are.
C17_LockedNoOp ==
  /\ (Resumed("login") /\ req.lockedBefore)
       => /\ LoginLockUntil(req.email) = req.lockBefore
          /\ LoginFailedCount(req.email) = req.countBefore
  /\ (Resumed("change-password") /\ req.lockedBefore)
       => /\ securities[req.email].lockUntil = req.lockBefore
          /\ securities[req.email].failedAttempts = req.countBefore

\* no login (no change-password) is suspended
Quiet(route) == \A c \in Calls : calls[c].route # route

\* C18: once the wrong-credential requests begun since a clean lockout state
\* have all completed, whatever their interleaving, the identity has been
\* locked if they were MAX_FAILED_ATTEMPTS or more, and failed_attempts is
\* their number otherwise.
C18_AllCounted ==
  /\ Quiet("login") =>
       IF tally["login"].wrong >= max_failed_attempts
         THEN tally["login"].locked
         ELSE LoginFailedCount(E1) = tally["login"].wrong
  /\ Quiet("change-password") =>
       IF tally["change-password"].wrong >= MAX_FAILED_ATTEMPTS
         THEN tally["change-password"].locked
         ELSE securities[E1].failedAttempts = tally["change-password"].wrong

-----------------------------------------------------------------------------
(* The order in which a handler touches the lockout state and the          *)
(* credential: "load" the user document is fetched, "check" the lock is    *)
(* tested, "read" a credential field is evaluated, "compare" a password is *)
(* compared with it, "write" it is replaced                                *)

\* router.post('/login'), account.js:679-810
login_trace(U, F, t, raw_email, password) ==
  LET email == normalize_email(raw_email)
      cmp == login_compare(U[email], password)
  IN IF ~validate_email_format(email) \/ PwLength(password) = 0 THEN << >>
     ELSE <<"check">> \o
       (IF is_email_locked(F, t, email).is_locked THEN << >>
        ELSE <<"load">> \o
          (IF ~U[email].exists THEN << >>
           ELSE <<"read">> \o
             (IF storedHashOf(U[email]).alg = "none" THEN << >>
              ELSE <<"compare">> \o
                (IF cmp.user # U[email] THEN <<"write">> ELSE << >>))))

\* mutant: the comparison is made before the lock is looked at
loginTrace_compare_first(U, t, email, password) ==
  <<"load", "read", "compare", "check">>

\* router.post('/login'), part_002:251-360
loginTrace(U, t, email, password) ==
  LET user == U[normalizeEmail(email)]
  IN IF ~validateEmail(normalizeEmail(email)) \/ PwLength(password) = 0
       THEN << >>
     ELSE <<"load">> \o
       (IF ~user.exists THEN << >>
        ELSE <<"check">> \o
          (IF user.lock_until # NoDate /\ user.lock_until > t THEN << >>
           ELSE <<"read">> \o
             (IF storedHashOf(user).alg = "none" THEN << >>
              ELSE <<"compare">>)))

\* router.post('/change-password'), PasswordHistory.js:318-447; line 346 logs
\* whether the user has a password before the lock is checked
change_password_trace(U, H, Sec, t, sub, old_password, new_password) ==
  LET user == U[sub]
      security == get_or_create_security(Sec, sub)[sub]
      current_hash == get_current_password_hash(user)
  IN IF sub = "" \/ old_password = "" \/ new_password = "" THEN << >>
     ELSE <<"load">> \o
       (IF ~user.exists THEN << >>
        ELSE <<"read", "check">> \o
          (IF check_lockout(security, t).locked THEN << >>
           ELSE IF submitted_passwords_error(old_password, new_password,
                                             user_email(sub)) # ""
             THEN << >>
           ELSE <<"read">> \o
             (IF current_hash.alg = "none" THEN << >>
              ELSE <<"compare">> \o
                (IF ~bcrypt_compare(old_password, current_hash) THEN << >>
                 ELSE <<"compare">> \o
                   (IF bcrypt_compare(new_password, current_hash) THEN << >>
                    ELSE [i \in 1..Len(recent_history(H[sub],
                                         PASSWORD_HISTORY_DEPTH)) |-> "compare"]
                         \o (IF check_password_history(H[sub], new_password)
                               THEN << >> ELSE <<"write">>))))))

\* router.post('/change-password'), account.js:151-276
change_password_v1_trace(U, H, Sec, t, sub, old_password, new_password) ==
  LET user == U[sub]
      security == get_or_create_security(Sec, sub)[sub]
  IN IF sub = "" \/ old_password = "" \/ new_password = "" THEN << >>
     ELSE <<"load">> \o
       (IF ~user.exists THEN << >>
        ELSE <<"check">> \o
          (IF check_lockout(security, t).locked THEN << >>
           ELSE IF submitted_passwords_error(old_password, new_password,
                                             user_email(sub)) # ""
             THEN << >>
           ELSE <<"read", "compare">> \o
             (IF user.password.alg = "none"
                 \/ ~comparePassword(user, old_password) THEN << >>
              ELSE <<"read", "compare">> \o
                (IF bcrypt_compare(new_password, user.password) THEN << >>
                 ELSE [i \in 1..Len(recent_history(H[sub],
                                      PASSWORD_HISTORY_DEPTH)) |-> "compare"]
                      \o (IF check_password_history(H[sub], new_password)
                            THEN << >> ELSE <<"write">>)))))

LoginTrace(raw, pw) ==
  IF build.auth = "map"
    THEN login_trace(users, failed_login_by_email, now, raw, pw)
    ELSE loginTrace(users, now, raw, pw)

ChangeTrace(sub, old, new) ==
  IF build.account = "v1"
    THEN change_password_v1_trace(users, histories, securities, now, sub, old,
                                  new)
    ELSE change_password_trace(users, histories, securities, now, sub, old, new)

Touches(trace, kinds) == \E i \in 1..Len(trace) : trace[i] \in kinds

\* in trace, the lock is tested before anything of kinds is done
CheckedBefore(trace, kinds) ==
  \A i \in 1..Len(trace) :
    trace[i] \in kinds => \E j \in 1..(i - 1) : trace[j] = "check"

\* a login or change-password request for a locked identity does none of
\* kinds, is answered 429 and leaves the account as it is
LockedDoesNone(kinds) ==
  /\ \A pw \in {P1, P2} :
       LoginLockActive(E1) /\ users[E1].exists
       => /\ ~Touches(LoginTrace(E1, pw), kinds)
          /\ LoginResult(E1, pw).resp.status = 429
          /\ LoginResult(E1, pw).users = users
  /\ \A sub \in tokens, old \in {P1, P3} :
       ChangeLockActive(sub)
       => /\ ~Touches(ChangeTrace(sub, old, P2), kinds)
          /\ ChangeResult(sub, old, P2).resp.status = 429
          /\ ChangeResult(sub, old, P2).users = users

-----------------------------------------------------------------------------
(* What ends a login lock *)

\* a step removes the active login lock of e, or moves its end earlier
LockCut(e) ==
  /\ LoginLockActive(e)
  /\ \/ LoginLockUntil(e)' = NoDate
     \/ LoginLockUntil(e)' < LoginLockUntil(e)

\* C20: no step clears or shortens an active login lock, unless it records a
\* successful login for that identity; the lock ends by the clock reaching
\* lock_until.
C20_LockStays ==
  [][\A e \in Emails :
       LockCut(e) => (req'.route = "login" /\ req'.email = e
                      /\ resp'.status = 200)]_vars

-----------------------------------------------------------------------------
(* Expired locks *)

\* C21: once now >= lock_until (now = lock_until included) the lock check
\* reports not locked: a login with the accepted password is answered 200
\* with a token, and check_lockout of change-password reports no lock.
C21_ExpiredIsOpen ==
  /\ \A e \in Emails, pw \in {P1, P2} :
       (/\ LoginLockUntil(e) # NoDate /\ now >= LoginLockUntil(e)
        /\ users[e].exists /\ Accepts(e, pw))
       => /\ LoginResult(e, pw).resp.status = 200
          /\ LoginResult(e, pw).resp.token = e
  /\ \A e \in Emails :
       (securities[e].lockUntil # NoDate /\ now >= securities[e].lockUntil)
       => ~check_lockout(securities[e], now).locked

\* a login at the very instant the lock ended was answered with a token,
\* after a login had been refused during the lock
C21_Witness ==
  /\ req.route = "login" /\ resp.status = 200 /\ resp.token = req.email
  /\ req.lockBefore = now /\ ~req.lockedBefore

-----------------------------------------------------------------------------
(* Logins whose user.save() may throw *)

NextSave ==
  \/ \E pw \in {P1, P2}, save_fails \in BOOLEAN : LoginWhen(E1, pw, save_fails)
  \/ Tick

SpecSave == InitEnum /\ [][NextSave]_vars

\* C22: a login that answers with a token leaves the lockout state of its
\* identity cleared, also when saving the user fails: a login whose save
\* throws carries no token.
C22_ClearedBeforeToken ==
  \A pw \in {P1, P2}, save_fails \in BOOLEAN :
    LET r == LoginResultWhen(E1, pw, save_fails)
    IN r.resp.token # ""
       => IF build.auth = "map"
            THEN r.failed[E1] = NoRecord
            ELSE /\ r.users[E1].failed_login_attempts = 0
                 /\ r.users[E1].lock_until = NoDate

\* the accepted password was presented after failures had been counted, the
\* save threw, and the answer carried no token
C22_Witness ==
  /\ req.route = "login" /\ req.saveFails /\ req.countBefore > 0
  /\ ~req.lockedBefore /\ Accepts(req.email, req.password)
  /\ resp.status = 500 /\ resp.token = ""
  /\ LoginFailedCount(req.email) = req.countBefore

-----------------------------------------------------------------------------
(* Registrations and verifications in flight together, for one email *)

InitDup == InitLogin /\ ~users[E1].exists

NextDup ==
  \/ \E c \in Calls, code \in Codes : RegisterBegin(c, E1, P1, code, "")
  \/ \E c \in Calls : RegisterEnd(c)
  \/ /\ build.auth = "doc" => ~register_awaits(users, E1, P1)
     /\ RegisterOtp(E1, P1, "482913")
  \/ \E c \in Calls : VerifyBegin(c, E1, "482913")
  \/ \E c \in Calls : VerifySave(c)
  \/ \E c \in Calls, delete_fails \in BOOLEAN : VerifyEnd(c, delete_fails)
  \/ \E otp \in Codes :
       /\ build.auth = "map" => ~verify_awaits(signup_otps, now, E1, otp)
       /\ VerifyOtp(E1, otp)
  \/ TickMinutes

SpecDup == InitDup /\ [][NextDup]_vars

\* C23: the User collection never holds two documents with one canonical
\* email, however register-otp and verify-otp requests overlap or fail
\* between the save and the deletion of the pending record.
C23_OneAccount == \A e \in Emails : documents[e] <= 1

\* the second of two overlapping requests that both found no user for the
\* email was refused by the index, the first having created the account
C23_Witness ==
  /\ req.saveFails /\ resp.status = 500
  /\ req.route \in {"verify-otp", "register-otp"}
  /\ documents[req.email] = 1 /\ users[req.email].exists

-----------------------------------------------------------------------------
(* Repeated registration of one email *)

NextStage ==
  \/ \E pw \in {P1, P3}, code \in Codes, role \in allowed_roles :
       RegisterOtpAs(E1, pw, code, role, "sent")
  \/ \E otp \in Codes : VerifyOtp(E1, otp)
  \/ TickMinutes

SpecStage == InitLogin /\ [][NextStage]_vars

WrongCodeStep ==
  /\ req'.route = "verify-otp" /\ now' = now /\ req'.email \in Emails
  /\ staged[req'.email].otp_code # "" /\ confirmed[req'.email] = ""
  /\ Pending(req'.email) /\ now < PendingExpiry(req'.email)
  /\ req'.otp # staged[req'.email].otp_code

\* C25: a verify-otp with a wrong code is refused and changes neither the
\* pending registration nor any account nor any lockout record, so that the
\* pending code is still accepted after it.
C25_WrongCodeHarmless ==
  [][WrongCodeStep =>
       /\ resp'.status = 400 /\ resp'.token = ""
       /\ users' = users /\ signup_otps' = signup_otps
       /\ failed_login_by_email' = failed_login_by_email
       /\ securities' = securities
       /\ \A e \in Emails, code \in Codes :
            (e = req'.email /\ code = staged[e].otp_code) =>
              (VerifyResult(e, code).resp.status = 200)'
    ]_vars

\* a wrong code has been refused and the pending code is still accepted
C25_Witness ==
  /\ req.route = "verify-otp" /\ resp.status = 400 /\ req.email \in Emails
  /\ req.otp \in Codes \ {staged[req.email].otp_code}
  /\ staged[req.email].otp_code # "" /\ confirmed[req.email] = ""
  /\ Pending(req.email) /\ now < PendingExpiry(req.email)
  /\ VerifyResult(req.email, staged[req.email].otp_code).resp.status = 200

-----------------------------------------------------------------------------
(* The writers of the login credential *)

NextCred ==
  \/ \E pw \in {P1, P3} : Login(E1, pw)
  \/ RegisterOtpAs(E1, P3, "482913", "", "sent")
  \/ \E otp \in Codes : VerifyOtp(E1, otp)
  \/ \E sub \in tokens, old \in {P1, P3}, new \in {P2, P3} :
       ChangePassword(sub, old, new, FALSE)

SpecCred == InitAccount /\ [][NextCred]_vars

\* the passwords login accepts for the account of e
AcceptedSecrets(e) == {pw \in Passwords : Accepts(e, pw)}

\* C26: the set of passwords login accepts for an email changes only in a
\* step that answers 200 to a verify-otp or a change-password for that
\* email; a register-otp or a login never changes it.
C26_CredentialWriters ==
  [][\A e \in Emails :
       AcceptedSecrets(e)' # AcceptedSecrets(e) =>
         /\ req'.route \in {"verify-otp", "change-password"}
         /\ req'.email = e /\ resp'.status = 200
    ]_vars

-----------------------------------------------------------------------------
(* Roles *)

NextRole ==
  \/ \E role \in RoleInputs : RegisterOtpAs(E1, P1, "482913", role, "sent")
  \/ VerifyOtp(E1, "482913")
  \/ \E pw \in {P1, P2} : Login(E1, pw)
  \/ TickMinutes

SpecRole == InitLogin /\ [][NextRole]_vars

\* the role the pending registration of e holds
PendingRole(e) ==
  IF build.auth = "map" THEN signup_otps[e].role ELSE users[e].role

\* C27: every user document and every token carries one of the known
\* roles, and a registration whose body has no role or an unknown one is
\* staged with the role farmer.
C27_RoleEnumerated ==
  /\ \A e \in Emails : users[e].exists => users[e].role \in allowed_roles
  /\ resp.token # "" => resp.role \in allowed_roles
  /\ (req.route = "register-otp" /\ resp.status = 200
      /\ req.role \notin allowed_roles) => PendingRole(req.email) = "farmer"

-----------------------------------------------------------------------------
(* Rotation of the password through seven values *)

Rotation == <<P1, P2, P3, P4, P5, P6, P7>>

NextKeep ==
  \/ \E pw \in {P1, P2} : Login(E1, pw)
  \/ \E sub \in tokens, i \in 1..(Len(Rotation) - 1) :
       ChangePasswordWithin(sub, Rotation[i], Rotation[i + 1], FALSE, MaxKept)
  \/ \E sub \in tokens, new \in {P1, P2} :
       ChangePasswordWithin(sub, Rotation[Len(Rotation)], new, FALSE, MaxKept)

SpecKeep == InitAccount /\ [][NextKeep]_vars

\* C28: an account never has more history entries than the retention bound,
\* taken at its least allowed value, the reuse depth.
C28_Retention ==
  \A e \in Emails : Len(histories[e]) <= PASSWORD_HISTORY_DEPTH

\* a change-password for e is answered 200 in this step
ChangedStep(e) ==
  /\ req'.route = "change-password" /\ req'.email = e /\ resp'.status = 200
  /\ <<users, histories, req, resp>>' # <<users, histories, req, resp>>

-----------------------------------------------------------------------------
(* Change-password requests that fail validation *)

NextReject ==
  \/ Login(E1, P1)
  \/ \E sub \in tokens, old \in {P1, P2, ""}, new \in {P1, P2, PWeak, PLocal} :
       ChangePassword(sub, old, new, FALSE)
  \/ TickMinutes

SpecReject == InitAccount /\ [][NextReject]_vars

\* the 400 of a missing field, of old equal to new, or of the policy
ValidationMessage(old, new, e, message) ==
  \/ message = "Old password and new password are required"
  \/ /\ submitted_passwords_error(old, new, e) # ""
     /\ message = submitted_passwords_error(old, new, e)

\* a change-password of e is refused for a validation or policy reason
RejectedStep(e) ==
  /\ req'.route = "change-password" /\ req'.email = e /\ now' = now
  /\ resp'.status = 400
  /\ ValidationMessage(req'.oldPassword, req'.newPassword, e, resp'.message)

\* C30: a change-password answered 400 for a missing field, for old equal to
\* new or for a new password against the policy leaves the users, the
\* histories and the failed attempts and lock of the account as they were.
C30_RejectionFrame ==
  [][\A e \in Emails :
       RejectedStep(e) =>
         /\ users' = users /\ histories' = histories
         /\ securities'[e].failedAttempts = securities[e].failedAttempts
         /\ securities'[e].lockUntil = securities[e].lockUntil
    ]_vars

\* a policy rejection after two wrong old passwords: the count is still two
C30_Witness ==
  /\ req.route = "change-password" /\ resp.status = 400
  /\ req.newPassword \in {PWeak, PLocal} /\ req.oldPassword \in {P1, P2}
  /\ ValidationMessage(req.oldPassword, req.newPassword, req.email, resp.message)
  /\ req.countBefore = 2 /\ securities[req.email].failedAttempts = 2

-----------------------------------------------------------------------------
(* The two lockouts of one account *)

\* a request of the route is handled in this step
Handled(route) ==
  /\ req'.route = route /\ now' = now
  /\ <<users, failed_login_by_email, securities, histories, tokens, req, resp>>'
       # <<users, failed_login_by_email, securities, histories, tokens, req, resp>>

\* C31: a change-password, accepted or refused, leaves the login failure
\* count and login lock of every email as they are, and a login, accepted or
\* refused, leaves the password-change failure count and lock as they are.
C31_Independent ==
  [][/\ Handled("change-password") =>
          \A e \in Emails :
            /\ LoginFailedCount(e)' = LoginFailedCount(e)
            /\ LoginLockUntil(e)' = LoginLockUntil(e)
     /\ Handled("login") =>
          \A e \in Emails :
            /\ securities'[e].failedAttempts = securities[e].failedAttempts
            /\ securities'[e].lockUntil = securities[e].lockUntil
    ]_vars

\* a change-password has succeeded while wrong logins are counted, and the
\* count of wrong old passwords before it was not zero either
C31_Witness ==
  /\ req.route = "change-password" /\ resp.status = 200
  /\ LoginFailedCount(req.email) > 0
  /\ req.countBefore > 0

-----------------------------------------------------------------------------
(* An account without a stored credential *)

\* a user document with neither password_hash nor password, which the
\* schema allows (PasswordHistory.js:88-98)
BareUser == [NoUser EXCEPT !.exists = TRUE, !.role = "farmer"]

InitBare ==
  /\ build \in Builds /\ build.help = "per_user"
  /\ build.node_env = "production"
  /\ now = 0
  /\ users = [e \in Emails |-> IF e = E1 THEN BareUser ELSE NoUser]
  /\ failed_login_by_email = [e \in Emails |-> NoRecord]
  /\ signup_otps = [e \in Emails |-> NoOtp]
  /\ histories = [e \in Emails |-> << >>]
  /\ securities = [e \in Emails |-> NoSecurity]
  /\ tokens = {}
  /\ req = NoReq
  /\ resp = NoResp
  /\ streak = [e \in Emails |-> 0]
  /\ staged = [e \in Emails |-> NoStage]
  /\ confirmed = [e \in Emails |-> ""]
  /\ probe = NoProbe
  /\ help_rate_store = [k \in HelpKeys |-> NoEntry]
  /\ complaints = [e \in Emails |-> 0]
  /\ granted = [k \in HelpKeys |-> 0]
  /\ served = [e \in Emails |-> 0]
  /\ calls = [c \in Calls |-> NoCall]
  /\ tally = [p \in Purposes |-> NoTally]
  /\ documents = [e \in Emails |-> IF users[e].exists THEN 1 ELSE 0]

\* logins, and change-password requests whose bearer token names E1
NextBare ==
  \/ \E pw \in {P1, P2} : Login(E1, pw)
  \/ \E old \in {P1, P2}, new \in {P2, P3} : ChangePassword(E1, old, new, FALSE)
  \/ Tick
  \/ TickNear

SpecBare == InitBare /\ [][NextBare]_vars

\* the account of e has no stored credential and no lock of the route is
\* active when a request of the route for e is handled
BareStep(route, e) ==
  /\ Handled(route) /\ req'.email = e
  /\ users[e].exists /\ Credential(e).alg = "none"
  /\ IF route = "login" THEN ~LoginLockActive(e) ELSE ~ChangeLockActive(e)

\* C32: a login or a change-password for an account without a stored
\* credential is answered otherwise than a wrong password is, and counts no
\* failed attempt and sets no lock.
C32_NoCredential ==
  [][\A e \in Emails :
       /\ BareStep("login", e) =>
            /\ resp'.status # 429
            /\ resp'.message # "Invalid email or password"
            /\ LoginFailedCount(e)' = LoginFailedCount(e)
            /\ LoginLockUntil(e)' = LoginLockUntil(e)
       /\ BareStep("change-password", e) =>
            /\ resp'.status # 429
            /\ resp'.message # "Old password is incorrect"
            /\ securities'[e].failedAttempts = securities[e].failedAttempts
            /\ securities'[e].lockUntil = securities[e].lockUntil
    ]_vars

-----------------------------------------------------------------------------
(* Migration of a legacy credential *)

\* C33: a login that is accepted for an account whose credential was stored
\* unhashed leaves the account, at the time the token is sent, with the
\* bcrypt hash of the same secret in password_hash and no legacy password,
\* and the secret is still accepted; a login that is not accepted leaves
\* both password fields as they were.
C33_LegacyMigrated ==
  [][\A e \in Emails :
       (Handled("login") /\ req'.email = e) =>
         /\ (resp'.status = 200 /\ Credential(e).alg = "plain") =>
              /\ users'[e].password_hash = bcrypt_hash(req'.password)
              /\ users'[e].password = NoHash
              /\ \A pw \in Passwords : Accepts(e, pw)' = Accepts(e, pw)
         /\ resp'.token # "" => Credential(e)'.alg = "bcrypt"
         /\ resp'.status # 200 =>
              /\ users'[e].password_hash = users[e].password_hash
              /\ users'[e].password = users[e].password
    ]_vars

\* the login that migrated the unhashed credential has been answered
C33_Witness ==
  /\ req.route = "login" /\ resp.status = 200 /\ resp.token = req.email
  /\ ~req.saveFails
  /\ users[req.email].password_hash = bcrypt_hash(req.password)
  /\ users[req.email].password = NoHash

-----------------------------------------------------------------------------
(* The retry-after of the help limiter *)

\* the answer to a help request of E1 made at time t on limiter store S
HelpAt(S, t, payload, ip) ==
  post_complaints(build.help, users, S, complaints, t, TRUE, payload, ip,
                  "ok", FALSE)

\* C34: when the limiter denies a request at the present instant with
\* retryAfterSeconds r, the next request of the same key, made r seconds
\* later, is let through and is the first of a new window.
C34_HonestRetry ==
  \A ip \in IPs, payload \in {SubPayload(E1), IdEmailPayload(E1)} :
    LET key == HelpKey(help_identity(build.help, users, payload).user_id, ip)
        denied == HelpAt(help_rate_store, now, payload, ip)
        later == now + denied.resp.retryAfterSeconds * 1000
        next == HelpAt(denied.store, later, payload, ip)
    IN denied.resp.status = 429 =>
         /\ denied.resp.retryAfterSeconds >= 1
         /\ next.resp.status = 201
         /\ next.store[key].count = 1
         /\ next.store[key].windowStart = later

\* a request has just been denied, at an instant that is not a whole second
\* after the start of its window, and the limiter still denies its key
C34_Witness ==
  /\ req.route = "complaints" /\ resp.status = 429 /\ req.ip \in IPs
  /\ resp.retryAfterSeconds >= 1
  /\ \E payload \in {SubPayload(E1), IdEmailPayload(E1)} :
       /\ HelpAt(help_rate_store, now, payload, req.ip).resp
            = resp
       /\ (now - help_rate_store[HelpKey(req.email, req.ip)].windowStart) % 1000 # 0

-----------------------------------------------------------------------------
(* The delivery of the verification code *)

NextMail ==
  \/ \E pw \in {P1, P3}, code \in Codes, smtp \in {"sent", "fails"} :
       RegisterOtpAs(E1, pw, code, "", smtp)
  \/ \E otp \in Codes : VerifyOtp(E1, otp)
  \/ TickMinutes

SpecMail == InitLogin /\ [][NextMail]_vars

\* C35: a register-otp answered 200 has stored the pending code of its email
\* and has handed that code to the mail transport, addressed to that email;
\* a send that throws changes neither the answer nor what is stored.
C35_CodeDelivered ==
  /\ (req.route = "register-otp" /\ resp.status = 200) =>
       /\ Pending(req.email)
       /\ PendingCode(req.email) = req.otp
       /\ req.mailed = [to |-> req.email, otp |-> req.otp]
  /\ \A raw \in Emails, pw \in {P1, P3}, code \in Codes :
       /\ RegisterResultAs(raw, pw, code, "", "fails").resp
            = RegisterResultAs(raw, pw, code, "", "sent").resp
       /\ RegisterResultAs(raw, pw, code, "", "fails").users
            = RegisterResultAs(raw, pw, code, "", "sent").users
       /\ RegisterResultAs(raw, pw, code, "", "fails").otps
            = RegisterResultAs(raw, pw, code, "", "sent").otps

-----------------------------------------------------------------------------
(* The support email of a help ticket *)

NextTicket ==
  \/ Login(E1, P1)
  \/ \E payload \in {SubPayload(E1), IdEmailPayload(E1)},
        mail_fails \in BOOLEAN :
       Complain(TRUE, payload, "10.0.0.1", "ok", mail_fails)
  \/ TickHelp

SpecTicket == InitHelp /\ [][NextTicket]_vars

\* C36: a help request that has stored its complaint and whose
\* send_help_email throws is answered 201, as the one whose send succeeds.
C36_TicketSurvivesMail ==
  [][(req'.route = "complaints" /\ req'.mailFails
      /\ complaints' # complaints)
       => /\ resp'.status = 201
          /\ resp'.message = "Complaint submitted successfully"
    ]_vars

-----------------------------------------------------------------------------
(* The guesses of overlapping logins *)

\* logins with a wrong password, overlapping or not, over the end of a lock
NextGuess ==
  \/ \E c \in Calls : LoginBegin(c, E1, P2)
  \/ /\ ~login_awaits(users, failed_login_by_email, now, E1, P2)
     /\ Login(E1, P2)
  \/ \E c \in Calls : LoginEnd(c)
  \/ Tick

SpecGuess == InitRaceLogin /\ [][NextGuess]_vars

\* C37: of the logins of one email, no more than max_failed_attempts wrong
\* passwords are compared with the stored credential from one setting of the
\* lock to the next, however the requests overlap.
C37_GuessesPerLock == tally["login"].compared <= max_failed_attempts

-----------------------------------------------------------------------------
(* Rotations in flight together, for one account *)

\* after one login, password changes with the accepted old password, which
\* overlap or not
NextTurn ==
  \/ tokens = {} /\ Login(E1, P1)
  \/ \E c \in Calls, sub \in tokens, new \in {P2, P3} :
       ChangeBegin(c, sub, P1, new)
  \/ \E sub \in tokens, new \in {P2, P3} :
       /\ ~change_awaits(users, securities, now, sub, P1, new)
       /\ ChangePassword(sub, P1, new, FALSE)
  \/ \E c \in Calls : ChangeEnd(c)

SpecTurn == InitRaceChange /\ [][NextTurn]_vars

\* the credential change-password holds to be the current one of e
ChangeCredential(e) ==
  IF build.account = "v1" THEN users[e].password
  ELSE get_current_password_hash(users[e])

\* C38: every change-password answered 200, overlapping others or not, adds
\* to the history of its account one entry, which holds the credential the
\* account had when the step replaced it: each replaced credential is in the
\* history, once for each time it was replaced.
C38_HistoryComplete ==
  [][\A e \in Emails :
       ChangedStep(e) =>
         /\ Len(histories'[e]) = Len(histories[e]) + 1
         /\ SubSeq(histories'[e], 1, Len(histories[e])) = histories[e]
         /\ histories'[e][Len(histories'[e])].passwordHash
              = ChangeCredential(e)
    ]_vars

-----------------------------------------------------------------------------
(* Logins to accounts that register-otp has staged *)

\* registrations, confirmations and logins for an email without an account
NextFresh ==
  \/ \E pw \in {P1, P3}, code \in Codes : RegisterOtp(E1, pw, code)
  \/ \E otp \in Codes : VerifyOtp(E1, otp)
  \/ \E pw \in {P1, P2, P3} : Login(E1, pw)
  \/ Tick

SpecFresh == InitDup /\ [][NextFresh]_vars

\* C39: a login that issues a token is a login to an account whose
\* email_verified is true.
C39_VerifiedOnly ==
  (req.route = "login" /\ resp.token # "") => users[req.email].email_verified

-----------------------------------------------------------------------------
(* The issued token as bearer credential *)

\* get_auth_user of the account router: the identity it takes from the
\* verified payload, both fields "" when it finds none
get_auth_user(payload) ==
  [userId |-> IF payload.userId # "" THEN payload.userId ELSE payload.sub,
   email |-> payload.email]

InitBearer ==
  /\ Init /\ build.auth = "doc" /\ build.node_env = "production"
  /\ users[E1].exists /\ users[E1].password.alg = "bcrypt"

\* requests that present the token login has issued
NextBearer ==
  \/ Login(E1, P1)
  \/ \E e \in tokens : Complain(TRUE, SubPayload(e), "10.0.0.1", "ok", FALSE)
  \/ \E e \in tokens :
       ChangePassword(get_auth_user(SubPayload(e)).userId, P1, P2, FALSE)
  \/ TickMinutes

SpecBearer == InitBearer /\ [][NextBearer]_vars

\* C40: a change-password or help request that presents the token issued
\* for an account is not answered 401 and is handled for that account, whose
\* id is the key the help limiter counts under.
C40_TokenAccepted ==
  /\ req.route = "change-password" =>
       resp.status # 401 /\ req.email \in tokens
  /\ req.route = "complaints" =>
       /\ resp.status # 401
       /\ req.email \in tokens
       /\ help_rate_store[HelpKey(req.email, req.ip)].present

====
